---- MODULE Spec2Model ----
(***************************************************************************)
(* Model of ironclad's type-hint matcher (predicates/compile.py) and of    *)
(* the Predicate combinator algebra (predicates/predicate.py).             *)
(*                                                                         *)
(* Python values are tagged tuples <<tag, payload>>; the payload of a tag  *)
(* always has the same shape:                                              *)
(*   <<"int", n>>  <<"bool", 0|1>>  <<"str", s>>  <<"None", 0>>            *)
(*   <<"obj", C>>        an instance of the user class C                   *)
(*   <<"class", C>>      the class object C itself                         *)
(*   <<"list", seq>> <<"tuple", seq>> <<"set", seq>> <<"frozenset", seq>>  *)
(*                       the elements in iteration order                   *)
(*   <<"dict", seq>>     the <<key, value>> items in iteration order       *)
(* Type hints are tagged tuples too:                                       *)
(*   <<"Any">>  <<"NoneHint">>  <<"cls", C>>  <<"Ellipsis">>               *)
(*   <<"generic", origin, args>>   list[T], tuple[T1, T2], dict[K, V],     *)
(*                                 type[T], Sequence[T], ...               *)
(*   <<"Annotated", base>>  <<"Literal", values>>  <<"Union", args>>       *)
(*   <<"TypeVar", constraints, bound>>  <<"tupleof", classes>>             *)
(*   <<"special", name>>           a bare typing form (typing.Union, ...)  *)
(* A call returns "True" or "False", or "TypeError" when it raises.        *)
(***************************************************************************)
EXTENDS Integers, Sequences, FiniteSets, TLC

VARIABLES x, hint, opts, result, pc, preds, last

vars == <<x, hint, opts, result, pc, preds, last>>

(* ------------------------------ bounds --------------------------------- *)
MaxLen == 2      \* longest container value
MaxArity == 2    \* longest fixed tuple hint tuple[T1, ..., Tn]

(* ------------------------- the host's type system ---------------------- *)
\* direct bases of a class, ABC registrations of collections.abc included
Bases(c) ==
    CASE c = "bool" -> {"int"}
      [] c = "Dog" -> {"Animal"}
      [] c = "list" -> {"MutableSequence"}
      [] c = "MutableSequence" -> {"Sequence"}
      [] c = "tuple" -> {"Sequence"}
      [] c = "str" -> {"Sequence"}
      [] c = "set" -> {"Set"}
      [] c = "frozenset" -> {"Set"}
      [] c = "dict" -> {"Mapping"}
      [] c = "object" -> {}
      [] OTHER -> {"object"}

RECURSIVE issubclass(_, _)
issubclass(c, d) ==
    \/ c = d
    \/ d = "object"
    \/ \E b \in Bases(c) : issubclass(b, d)

\* type(x)
TypeOf(v) ==
    CASE v[1] = "None" -> "NoneType"
      [] v[1] = "obj" -> v[2]
      [] v[1] = "class" -> "type"
      [] OTHER -> v[1]

RECURSIVE AllHashable(_, _)
RECURSIVE hashable(_)
\* hash(x) succeeds
hashable(v) ==
    CASE v[1] \in {"list", "set", "dict"} -> FALSE
      [] v[1] \in {"tuple", "frozenset"} -> AllHashable(v[2], 1)
      [] OTHER -> TRUE

AllHashable(s, i) ==
    IF i > Len(s) THEN TRUE ELSE hashable(s[i]) /\ AllHashable(s, i + 1)

\* a == b for hashable scalars: True == 1, otherwise same type and payload
PyEq(a, b) ==
    IF a[1] \in {"int", "bool"} /\ b[1] \in {"int", "bool"}
    THEN a[2] = b[2]
    ELSE a[1] = b[1] /\ a[1] \in {"str", "None", "obj", "class"} /\ a[2] = b[2]

\* short-circuit `a and b`, `a or b` over call outcomes; an exception propagates
PyAnd(a, b) == IF a = "True" THEN b ELSE a
PyOr(a, b) == IF a = "False" THEN b ELSE a
Py(b) == IF b THEN "True" ELSE "False"

\* typing.get_origin(hint)
get_origin(h) ==
    CASE h[1] = "generic" -> h[2]
      [] h[1] \in {"Annotated", "Literal", "Union"} -> h[1]
      [] OTHER -> "NoOrigin"

\* typing.get_args(hint)
get_args(h) ==
    CASE h[1] = "generic" -> h[3]
      [] h[1] = "Annotated" -> <<h[2]>>
      [] h[1] \in {"Literal", "Union"} -> h[2]
      [] OTHER -> <<>>

\* the hint that an origin denotes when it is matched on its own
OriginHint(origin) ==
    IF origin \in {"Union", "Literal"} THEN <<"special", origin>>
    ELSE <<"cls", origin>>

\* isinstance(hint, type)
IsType(h) == h[1] = "cls"

RECURSIVE UnionInstanceCheck(_, _, _)
\* isinstance(x, Union[...]): the members are tried in order with issubclass,
\* a member that is not a class raises TypeError when it is reached
UnionInstanceCheck(v, args, i) ==
    IF i > Len(args) THEN "False"
    ELSE IF args[i][1] = "NoneHint"
         THEN PyOr(Py(TypeOf(v) = "NoneType"), UnionInstanceCheck(v, args, i + 1))
    ELSE IF args[i][1] = "cls"
         THEN PyOr(Py(issubclass(TypeOf(v), args[i][2])),
                   UnionInstanceCheck(v, args, i + 1))
    ELSE "TypeError"

RECURSIVE TupleInstanceCheck(_, _, _)
\* isinstance(x, (A, B, ...))
TupleInstanceCheck(v, classes, i) ==
    IF i > Len(classes) THEN "False"
    ELSE PyOr(Py(issubclass(TypeOf(v), classes[i])),
              TupleInstanceCheck(v, classes, i + 1))

\* isinstance(x, hint) for any hint object
isinstance(v, h) ==
    CASE h[1] = "cls" -> Py(issubclass(TypeOf(v), h[2]))
      [] h[1] = "tupleof" -> TupleInstanceCheck(v, h[2], 1)
      [] h[1] = "Union" -> UnionInstanceCheck(v, h[2], 1)
      [] OTHER -> "TypeError"

\* the elements a `for e in x` loop visits (a str yields its characters)
Iter(v) ==
    CASE v[1] = "str" -> IF v[2] = "" THEN <<>> ELSE << <<"str", v[2]>> >>
      [] v[1] = "dict" -> [i \in 1..Len(v[2]) |-> v[2][i][1]]
      [] OTHER -> v[2]

(* ------------------- predicates/compile.py: the matcher ---------------- *)
RECURSIVE matches_hint(_, _, _)
RECURSIVE AnyMatch(_, _, _, _)
RECURSIVE AllElems(_, _, _, _)
RECURSIVE AllZip(_, _, _, _)
RECURSIVE AllItems(_, _, _, _, _)

\* any(matches_hint(x, ht, opts) for ht in hints)
AnyMatch(v, hints, i, o) ==
    IF i > Len(hints) THEN "False"
    ELSE PyOr(matches_hint(v, hints[i], o), AnyMatch(v, hints, i + 1, o))

\* all(matches_hint(e, elem, opts) for e in x)
AllElems(elems, h, i, o) ==
    IF i > Len(elems) THEN "True"
    ELSE PyAnd(matches_hint(elems[i], h, o), AllElems(elems, h, i + 1, o))

\* all(matches_hint(elem, ht, opts) for elem, ht in zip(x, args, strict=False))
AllZip(elems, hints, i, o) ==
    IF i > Len(elems) \/ i > Len(hints) THEN "True"
    ELSE PyAnd(matches_hint(elems[i], hints[i], o), AllZip(elems, hints, i + 1, o))

\* all(matches_hint(k, k_hint, opts) and matches_hint(v, v_hint, opts)
\*     for k, v in x.items())
AllItems(items, k_hint, v_hint, i, o) ==
    IF i > Len(items) THEN "True"
    ELSE PyAnd(PyAnd(matches_hint(items[i][1], k_hint, o),
                     matches_hint(items[i][2], v_hint, o)),
               AllItems(items, k_hint, v_hint, i + 1, o))

_matches_typevar(v, h, o) ==
    IF h[1] = "TypeVar"
    THEN IF Len(h[2]) > 0 THEN AnyMatch(v, h[2], 1, o)
         ELSE IF h[3][1] # "NoBound" THEN matches_hint(v, h[3], o)
         ELSE "True"
    ELSE "False"

\* x in set(get_args(hint)); set(...) raises on an unhashable literal value,
\* set.__contains__ looks an unhashable set up as the frozenset of its
\* elements, any other unhashable value raises
LiteralMember(v, args) ==
    IF ~AllHashable(args, 1) THEN "TypeError"
    ELSE IF ~hashable(IF v[1] = "set" THEN <<"frozenset", v[2]>> ELSE v) THEN "TypeError"
    ELSE Py(\E i \in 1..Len(args) : PyEq(v, args[i]))

_matches_typing_hint(v, h, origin, o) ==
    IF origin = "type"
    THEN LET t == IF Len(get_args(h)) > 0 THEN get_args(h)[1] ELSE <<"cls", "object">>
         IN  Py(TypeOf(v) = "type" /\ (t[2] = "object" \/ issubclass(v[2], t[2])))
    ELSE IF origin = "Annotated"
    THEN matches_hint(v, get_args(h)[1], o)
    ELSE IF origin = "Literal"
    THEN LiteralMember(v, get_args(h))
    ELSE IF origin = "Union"
    THEN AnyMatch(v, get_args(h), 1, o)
    ELSE _matches_typevar(v, h, o)

_matches_collection_hint(v, h, origin, o) ==
    IF origin = "tuple"
    THEN LET args == get_args(h)
         IN  IF Len(args) = 2 /\ args[2][1] = "Ellipsis"
             THEN PyAnd(isinstance(v, <<"cls", "tuple">>), AllElems(v[2], args[1], 1, o))
             ELSE PyAnd(isinstance(v, <<"cls", "tuple">>),
                        PyAnd(Py(Len(v[2]) = Len(args)), AllZip(v[2], args, 1, o)))
    ELSE IF origin \in {"list", "set", "frozenset", "Sequence", "Set", "MutableSequence"}
    THEN LET elem == IF Len(get_args(h)) > 0 THEN get_args(h)[1] ELSE <<"Any">>
         IN  PyAnd(isinstance(v, <<"cls", origin>>), AllElems(Iter(v), elem, 1, o))
    ELSE IF origin \in {"dict", "Mapping"}
    THEN IF isinstance(v, <<"cls", "Mapping">>) = "False" THEN "False"
         ELSE LET k_hint == IF Len(get_args(h)) > 0 THEN get_args(h)[1] ELSE <<"Any">>
                  v_hint == IF Len(get_args(h)) > 0 THEN get_args(h)[2] ELSE <<"Any">>
              IN  AllItems(v[2], k_hint, v_hint, 1, o)
    ELSE "False"

\* _matches_normal without the strict_bools case for int
_matches_normal_no_strict_bools(v, h, origin, o) ==
    LET body ==
            IF IsType(h) /\ ~o.allow_subclasses
            THEN Py(TypeOf(v) = h[2])
            ELSE isinstance(v, h)
    IN  IF body = "TypeError"
        THEN PyAnd(Py(origin # "NoOrigin"), matches_hint(v, OriginHint(origin), o))
        ELSE body

\* _matches_normal without the allow_subclasses case
_matches_normal_no_exact_type(v, h, origin, o) ==
    LET body ==
            IF IsType(h) /\ o.strict_bools /\ h[2] = "int"
            THEN Py(TypeOf(v) = "int")
            ELSE isinstance(v, h)
    IN  IF body = "TypeError"
        THEN PyAnd(Py(origin # "NoOrigin"), matches_hint(v, OriginHint(origin), o))
        ELSE body

_matches_normal(v, h, origin, o) ==
    LET body ==
            IF IsType(h) /\ ~o.allow_subclasses
            THEN Py(TypeOf(v) = h[2])
            ELSE IF IsType(h) /\ o.strict_bools /\ h[2] = "int"
            THEN Py(TypeOf(v) = "int")
            ELSE isinstance(v, h)
    IN  IF body = "TypeError"
        THEN PyAnd(Py(origin # "NoOrigin"), matches_hint(v, OriginHint(origin), o))
        ELSE body

matches_hint(v, h, o) ==
    IF h[1] = "Any" THEN "True"
    ELSE IF h[1] = "NoneHint" THEN Py(v[1] = "None")
    ELSE LET origin == get_origin(h)
             c == _matches_collection_hint(v, h, origin, o)
         IN  IF c # "False" THEN c
             ELSE LET t == _matches_typing_hint(v, h, origin, o)
                  IN  IF t # "False" THEN t
                      ELSE _matches_normal(v, h, origin, o)

(* ------------------------ the inputs that are drawn -------------------- *)
SeqsUpTo(S, n) == UNION { [1..k -> S] : k \in 0..n }

\* no two entries are equal as Python values (a set's elements, a dict's keys)
Distinct(s) == \A i, j \in 1..Len(s) : i < j => ~PyEq(s[i], s[j])

ElemValues == { <<"int", 1>>, <<"bool", 1>>, <<"str", "a">> }

ScalarValues ==
    ElemValues \cup
    { <<"int", 2>>, <<"bool", 0>>, <<"None", 0>>,
      <<"obj", "Animal">>, <<"obj", "Dog">>,
      <<"class", "Animal">>, <<"class", "Dog">>, <<"class", "int">> }

ContainerValues ==
    { <<k, s>> : k \in {"list", "tuple"}, s \in SeqsUpTo(ElemValues, MaxLen) }
    \cup { <<k, s>> : k \in {"set", "frozenset"},
                      s \in { t \in SeqsUpTo(ElemValues, MaxLen) : Distinct(t) } }
    \cup { <<"dict", s>> :
             s \in { t \in SeqsUpTo(ElemValues \X ElemValues, MaxLen) :
                       Distinct([i \in 1..Len(t) |-> t[i][1]]) } }

Values == ScalarValues \cup ContainerValues

Cls(c) == <<"cls", c>>

ArgHints == { Cls("int"), Cls("str"), Cls("bool") }

ClassHints ==
    { Cls(c) : c \in {"int", "bool", "str", "object", "Animal", "Dog", "list",
                      "tuple", "dict", "set", "type", "Sequence", "Mapping"} }

ContainerHints ==
    { <<"generic", k, <<t>> >> :
        k \in {"list", "set", "frozenset", "Sequence", "Set", "MutableSequence"},
        t \in ArgHints }

TupleHints ==
    { <<"generic", "tuple", a>> : a \in SeqsUpTo(ArgHints, MaxArity) \ { <<>> } }
    \cup { <<"generic", "tuple", <<t, <<"Ellipsis">> >> >> : t \in ArgHints }

MappingHints ==
    { <<"generic", k, <<kh, vh>> >> : k \in {"dict", "Mapping"},
                                      kh \in ArgHints, vh \in ArgHints }

TypeOfHints ==
    { <<"generic", "type", <<Cls(c)>> >> : c \in {"Animal", "Dog", "int", "object"} }

LiteralHints == { <<"Literal", << <<"int", 1>>, <<"str", "a">> >> >>,
                  <<"Literal", << <<"int", 2>> >> >> }

AnnotatedHints ==
    { <<"Annotated", b>> :
        b \in { Cls("int"), Cls("Animal"), <<"generic", "list", <<Cls("int")>> >> } }

UnionMembers ==
    { Cls("int"), Cls("str"), Cls("Animal"), <<"NoneHint">>,
      <<"generic", "list", <<Cls("int")>> >>,
      <<"Literal", << <<"int", 1>>, <<"str", "a">> >> >> }

\* Union[A, A] is A in the host, so the two members differ
UnionHints ==
    { <<"Union", <<m[1], m[2]>> >> :
        m \in { p \in UnionMembers \X UnionMembers : p[1] # p[2] } }

TypeVarHints ==
    { <<"TypeVar", <<>>, <<"NoBound">> >>,
      <<"TypeVar", <<>>, Cls("Animal")>>,
      <<"TypeVar", <<Cls("int"), Cls("str")>>, <<"NoBound">> >> }

TupleOfHints ==
    { <<"tupleof", <<a, b>> >> : a \in {"int", "str", "Animal", "bool"},
                                 b \in {"int", "str", "Animal", "bool"} }

Hints ==
    { <<"Any">>, <<"NoneHint">> } \cup ClassHints \cup ContainerHints
    \cup TupleHints \cup MappingHints \cup TypeOfHints \cup LiteralHints
    \cup AnnotatedHints \cup UnionHints \cup TypeVarHints \cup TupleOfHints

\* types.py: EnforceOptions
EnforceOptions ==
    [allow_subclasses : BOOLEAN, check_defaults : BOOLEAN, strict_bools : BOOLEAN]

DEFAULT_ENFORCE_OPTIONS ==
    [allow_subclasses |-> TRUE, check_defaults |-> TRUE, strict_bools |-> TRUE]

(* --------------------- specification of the matcher -------------------- *)
NoPreds == <<>>
NoLast == [op |-> "none", self |-> 0, other |-> 0, out |-> 0]

InitMatch ==
    /\ x \in Values
    /\ hint \in Hints
    /\ opts \in EnforceOptions
    /\ result = "none"
    /\ pc = "call"
    /\ preds = NoPreds
    /\ last = NoLast

\* a caller invokes matches_hint(x, hint, opts)
CallMatchesHint ==
    /\ pc = "call"
    /\ result' = matches_hint(x, hint, opts)
    /\ pc' = "done"
    /\ UNCHANGED <<x, hint, opts, preds, last>>

NextMatch == CallMatchesHint

SpecMatch == InitMatch /\ [][NextMatch]_vars

TypeOKMatch == result \in {"none", "True", "False", "TypeError"}

(* ----------------------- properties of the matcher --------------------- *)
Done == pc = "done"

\* every element the loop over x visits matches the hint t
EveryElemMatches(elems, t, o) ==
    \A i \in 1..Len(elems) : matches_hint(elems[i], t, o) = "True"

\* C1: Union law - for every value, pair of hints A and B and options,
\* matches_hint(v, Union[A, B], opts) equals
\* matches_hint(v, A, opts) or matches_hint(v, B, opts).
C1_UnionLaw ==
    (Done /\ hint \in UnionHints) =>
        result = PyOr(matches_hint(x, hint[2][1], opts),
                      matches_hint(x, hint[2][2], opts))

\* C2: for Container[T], matches_hint is true if and only if the value is an
\* instance of Container and every element of it matches T.
C2_ContainerIff ==
    (Done /\ hint \in ContainerHints) =>
        (result = "True" <=>
            /\ issubclass(TypeOf(x), hint[2])
            /\ EveryElemMatches(Iter(x), hint[3][1], opts))

\* C3: for tuple[T1, ..., Tn], matches_hint is true if and only if the value
\* is a tuple of exactly n elements whose i-th element matches Ti.
C3_FixedTupleIff ==
    (Done /\ hint \in TupleHints /\ hint[3][Len(hint[3])] # <<"Ellipsis">>) =>
        (result = "True" <=>
            /\ x[1] = "tuple"
            /\ Len(x[2]) = Len(hint[3])
            /\ \A i \in 1..Len(hint[3]) :
                   matches_hint(x[2][i], hint[3][i], opts) = "True")

\* C4: for Map[K, V], matches_hint is true if and only if the value is a
\* mapping whose every key matches K and whose every value matches V.
C4_MappingIff ==
    (Done /\ hint \in MappingHints) =>
        (result = "True" <=>
            /\ x[1] = "dict"
            /\ \A i \in 1..Len(x[2]) :
                   /\ matches_hint(x[2][i][1], hint[3][1], opts) = "True"
                   /\ matches_hint(x[2][i][2], hint[3][2], opts) = "True")

\* C5: for type[T], matches_hint is true if and only if the value is a class
\* object that is T or a subclass of T (any class when T is object).
C5_TypeOfIff ==
    (Done /\ hint \in TypeOfHints) =>
        (result = "True" <=>
            /\ x[1] = "class"
            /\ (hint[3][1][2] = "object" \/ issubclass(x[2], hint[3][1][2])))

\* C6: with the other options at their defaults, a boolean matches int
\* exactly when strict_bools is false, and a value whose exact type is int
\* matches int under both settings.
C6_BoolIntStrictness ==
    (Done /\ hint = Cls("int") /\ opts.allow_subclasses /\ opts.check_defaults) =>
        /\ (TypeOf(x) = "bool" => result = Py(~opts.strict_bools))
        /\ (TypeOf(x) = "int" => result = "True")

C6_Witness ==
    /\ Done
    /\ hint = Cls("int")
    /\ x = <<"bool", 1>>
    /\ opts = DEFAULT_ENFORCE_OPTIONS
    /\ result = "False"

\* is an instance of a class that is a subclass of c other than c itself
InstanceOfStrictSubclass(v, c) == TypeOf(v) # c /\ issubclass(TypeOf(v), c)

\* C7 as stated: with allow_subclasses=false a value matches a concrete type
\* T if and only if its exact type is T; with allow_subclasses=true an
\* instance of a strict subclass of T is accepted.
C7_SubclassPolicy ==
    (Done /\ hint \in ClassHints) =>
        /\ (~opts.allow_subclasses => (result = "True" <=> TypeOf(x) = hint[2]))
        /\ (opts.allow_subclasses /\ InstanceOfStrictSubclass(x, hint[2])
                => result = "True")

\* C7 amended: with allow_subclasses=false a value matches a concrete type T
\* if and only if its exact type is T; with allow_subclasses=true an instance
\* of a strict subclass of T is accepted, except that when T is int and
\* strict_bools is true only a value whose exact type is int is accepted.
C7_SubclassPolicyAmended ==
    (Done /\ hint \in ClassHints) =>
        /\ (~opts.allow_subclasses => (result = "True" <=> TypeOf(x) = hint[2]))
        /\ (opts.allow_subclasses /\ InstanceOfStrictSubclass(x, hint[2])
                => IF hint[2] = "int" /\ opts.strict_bools
                   THEN result = "False"
                   ELSE result = "True")

C7_Witness ==
    /\ Done
    /\ hint = Cls("Animal")
    /\ x = <<"obj", "Dog">>
    /\ ~opts.allow_subclasses
    /\ result = "False"

\* C8: a plain tuple of types (A, B) is the union of its members -
\* matches_hint(v, (A, B), opts) equals
\* matches_hint(v, A, opts) or matches_hint(v, B, opts).
C8_TupleOfTypesIsUnion ==
    (Done /\ hint \in TupleOfHints) =>
        result = PyOr(matches_hint(x, Cls(hint[2][1]), opts),
                      matches_hint(x, Cls(hint[2][2]), opts))

\* C9: matches_hint is total - for every value and every well-formed hint it
\* returns a boolean and never raises.
C9_Total == Done => result \in {"True", "False"}

(* ------------- predicates/predicate.py: the Predicate class ------------ *)
\* A Predicate object is a record of its four slots:
\*   func     <<"test", f>>          a test function supplied by the caller
\*            <<"and", self, other>> lambda x: self(x) and other(x)
\*            <<"or", self, other>>  lambda x: self(x) or other(x)
\*            <<"not", self>>        lambda x: not self(x)
\*            <<"quantify", q, self>> lambda i: quantifier(self.__func(x) for x in i)
\*            <<"on", getter, self>> lambda o: self.__func(getter(o))
\*   name     a string
\*   msg      <<"str", s>>, or the lambda a combinator builds, tagged like func
\*   context  the sequence of ancestor predicates

MaxPreds == 5    \* most Predicate objects alive at once

\* the values the predicates are applied to
TestInputs == { <<"int", -1>>, <<"int", 0>>, <<"int", 1>>, <<"int", 4>> }

\* bool(v)
Truthy(v) ==
    CASE v[1] \in {"int", "bool"} -> v[2] # 0
      [] v[1] = "str" -> v[2] # ""
      [] v[1] = "None" -> FALSE
      [] v[1] \in {"list", "tuple", "set", "frozenset", "dict"} -> Len(v[2]) > 0
      [] OTHER -> TRUE

Bool(b) == <<"bool", IF b THEN 1 ELSE 0>>

\* the test functions callers wrap; "identity" returns its argument, a test
\* whose result is truthy or falsy without being a bool
TestFunc(f, v) ==
    CASE f = "is_pos" -> Bool(v[2] > 0)
      [] f = "gt3" -> Bool(v[2] > 3)
      [] f = "identity" -> v

\* Predicate.__init__(func, name, msg)
NewPredicate(func, name, msg) ==
    [func |-> func, name |-> name,
     msg |-> IF msg = <<"None">> THEN <<"str", name>> ELSE msg,
     context |-> <<>>]

\* Predicate._set_context
_set_context(p, context) == [p EXCEPT !.context = context]

(* the quantifier functions: each receives the generator
   (self.__func(x) for x in i), modelled as <<"generator", results>> *)

\* isinstance(bits, Sized): a list or tuple is sized, a generator is not
IsSized(bits) == bits[1] \in {"list", "tuple", "set", "frozenset", "dict"}

\* size = None if not isinstance(bits, Sized) else len(bits); None is -1
SizeOf(bits) == IF IsSized(bits) THEN Len(bits[2]) ELSE -1

RECURSIVE at_least_loop(_, _, _, _)
\* the for loop of at_least's quantifier, entered at item i with `count`
at_least_loop(items, n, i, count) ==
    IF i > Len(items) THEN Bool(FALSE)
    ELSE LET c == count + (IF Truthy(items[i]) THEN 1 ELSE 0)
         IN  IF c >= n THEN Bool(TRUE) ELSE at_least_loop(items, n, i + 1, c)

\* Predicate.at_least: quantifier(bits)
at_least_quantifier(n, bits) ==
    IF SizeOf(bits) # -1 /\ SizeOf(bits) < n THEN Bool(FALSE)
    ELSE at_least_loop(bits[2], n, 1, 0)

RECURSIVE at_most_loop(_, _, _, _)
\* the for loop of at_most's quantifier
at_most_loop(items, n, i, count) ==
    IF i > Len(items) THEN Bool(TRUE)
    ELSE LET c == count + (IF Truthy(items[i]) THEN 1 ELSE 0)
         IN  IF c >= n THEN Bool(FALSE) ELSE at_most_loop(items, n, i + 1, c)

\* Predicate.at_most: quantifier(bits)
at_most_quantifier(n, bits) == at_most_loop(bits[2], n, 1, 0)

RECURSIVE exactly_loop(_, _, _, _)
\* the for loop of exactly's quantifier and the comparison after it
exactly_loop(items, n, i, count) ==
    IF i > Len(items) THEN Bool(count = n)
    ELSE LET c == count + (IF Truthy(items[i]) THEN 1 ELSE 0)
         IN  IF c >= n THEN Bool(FALSE) ELSE exactly_loop(items, n, i + 1, c)

\* Predicate.exactly: quantifier(bits)
exactly_quantifier(n, bits) ==
    IF SizeOf(bits) # -1 /\ SizeOf(bits) < n THEN Bool(FALSE)
    ELSE exactly_loop(bits[2], n, 1, 0)

\* the quantifier function q applied to the generator
Quantifier(q, bits) ==
    CASE q[1] = "all" -> Bool(\A i \in 1..Len(bits[2]) : Truthy(bits[2][i]))
      [] q[1] = "any" -> Bool(\E i \in 1..Len(bits[2]) : Truthy(bits[2][i]))
      [] q[1] = "at_least" -> at_least_quantifier(q[2], bits)
      [] q[1] = "at_most" -> at_most_quantifier(q[2], bits)
      [] q[1] = "exactly" -> exactly_quantifier(q[2], bits)

\* getter(o) for the getters callers pass to on(): the attribute `data`
Getter(g, o) == CASE g = "data" -> <<"int", o[2]>>

RECURSIVE ApplyFunc(_, _)

\* Predicate.__call__
call(p, v) == Bool(Truthy(ApplyFunc(p.func, v)))

\* the wrapped function applied to a value; `a and b` and `a or b` yield one
\* of their operands
ApplyFunc(f, v) ==
    CASE f[1] = "test" -> TestFunc(f[2], v)
      [] f[1] = "and" -> LET a == call(f[2], v)
                         IN  IF Truthy(a) THEN call(f[3], v) ELSE a
      [] f[1] = "or" -> LET a == call(f[2], v)
                        IN  IF Truthy(a) THEN a ELSE call(f[3], v)
      [] f[1] = "not" -> Bool(~Truthy(call(f[2], v)))
      [] f[1] = "quantify" ->
            Quantifier(f[2], <<"generator",
                               [i \in 1..Len(Iter(v)) |->
                                   ApplyFunc(f[3].func, Iter(v)[i])]>>)
      [] f[1] = "on" -> ApplyFunc(f[3].func, Getter(f[2], v))

\* Predicate.__and__ building the conjunction as a disjunction
and_as_or(self, other) ==
    NewPredicate(<<"or", self, other>>, self.name \o " & " \o other.name,
                 <<"and", self, other>>)

\* Predicate.__and__
__and__(self, other) ==
    NewPredicate(<<"and", self, other>>, self.name \o " & " \o other.name,
                 <<"and", self, other>>)

\* Predicate.__or__
__or__(self, other) ==
    NewPredicate(<<"or", self, other>>, self.name \o " | " \o other.name,
                 <<"or", self, other>>)

\* Predicate.__invert__ handing its operand's context on to the result
invert_keeping_context(self) ==
    _set_context(NewPredicate(<<"not", self>>, "~" \o self.name, <<"not", self>>),
                 self.context)

\* Predicate.__invert__
__invert__(self) ==
    NewPredicate(<<"not", self>>, "~" \o self.name, <<"not", self>>)

\* Predicate.__xor__
__xor__(self, other) == __and__(__or__(self, other), __invert__(__and__(self, other)))

\* Predicate.implies
implies(self, other) == __or__(__invert__(self), other)

\* Predicate.with_name leaving the clone without the receiver's context
with_name_dropping_context(self, name) == NewPredicate(self.func, name, self.msg)

\* Predicate.with_name(name)
with_name(self, name) == _set_context(NewPredicate(self.func, name, self.msg), self.context)

\* Predicate.with_msg(msg)
with_msg(self, msg) == _set_context(NewPredicate(self.func, self.name, msg), self.context)

\* Predicate.on(getter)
on(self, getter) == NewPredicate(<<"on", getter, self>>, self.name, <<"on", getter, self>>)

\* Predicate.lift keeping only the source predicate as context
lift_without_ancestors(self, func, name, msg) ==
    _set_context(NewPredicate(func, IF name[1] = "None" THEN self.name ELSE name[2], msg),
                 << self >>)

\* Predicate.lift(func, name, msg); name is <<"None">> or <<"str", s>>
lift(self, func, name, msg) ==
    _set_context(NewPredicate(func, IF name[1] = "None" THEN self.name ELSE name[2], msg),
                 Append(self.context, self))

\* Predicate.__msg_over_iter(prefix)
__msg_over_iter(self, prefix) ==
    IF self.msg[1] = "str" THEN self.msg ELSE <<"over_iter", prefix, self>>

\* Predicate.quantify(quantifier, label, prefix=prefix)
quantify(self, quantifier, label, prefix) ==
    lift(self, <<"quantify", quantifier, self>>,
         <<"str", label \o "(" \o self.name \o ")">>, __msg_over_iter(self, prefix))

\* Predicate.all
all(self) == quantify(self, <<"all">>, "all", "for every element: ")

\* Predicate.any
any(self) == quantify(self, <<"any">>, "any", "for at least one element: ")

\* Predicate.at_least(n)
at_least(self, n) ==
    quantify(self, <<"at_least", n>>, "at least " \o ToString(n),
             "for at least " \o ToString(n) \o " elements: ")

\* Predicate.at_most(n)
at_most(self, n) ==
    quantify(self, <<"at_most", n>>, "at most " \o ToString(n),
             "for at most " \o ToString(n) \o " elements: ")

\* Predicate.exactly(n)
exactly(self, n) ==
    quantify(self, <<"exactly", n>>, "at least " \o ToString(n),
             "for at least " \o ToString(n) \o " elements: ")

(* ------------------- specification of the combinators ------------------ *)
\* the predicates a program starts from, built with the constructor
BasePreds ==
    << NewPredicate(<<"test", "is_pos">>, "is positive", <<"None">>),
       NewPredicate(<<"test", "gt3">>, "greater than 3", <<"None">>),
       NewPredicate(<<"test", "identity">>, "truthy", <<"str", "expected truthy">>) >>

InitPred ==
    /\ preds = BasePreds
    /\ last = NoLast
    /\ x = <<"None", 0>>
    /\ hint = <<"Any">>
    /\ opts = DEFAULT_ENFORCE_OPTIONS
    /\ result = "none"
    /\ pc = "idle"

\* the program keeps the predicate an operation returned
Keep(op, i, j, p) ==
    /\ Len(preds) < MaxPreds
    /\ preds' = Append(preds, p)
    /\ last' = [op |-> op, self |-> i, other |-> j, out |-> Len(preds) + 1]
    /\ UNCHANGED <<x, hint, opts, result, pc>>

And == \E i, j \in 1..Len(preds) : Keep("and", i, j, __and__(preds[i], preds[j]))
Or == \E i, j \in 1..Len(preds) : Keep("or", i, j, __or__(preds[i], preds[j]))
Invert == \E i \in 1..Len(preds) : Keep("invert", i, i, __invert__(preds[i]))
Xor == \E i, j \in 1..Len(preds) : Keep("xor", i, j, __xor__(preds[i], preds[j]))
Implies == \E i, j \in 1..Len(preds) : Keep("implies", i, j, implies(preds[i], preds[j]))

NextPred == And \/ Or \/ Invert \/ Xor \/ Implies

SpecPred == InitPred /\ [][NextPred]_vars

(* ---------------------- properties of the combinators ------------------ *)
\* P(v), Q(v) and R(v) for the operands and the result of the last operation
LastP(v) == call(preds[last.self], v)
LastQ(v) == call(preds[last.other], v)
LastR(v) == call(preds[last.out], v)

\* C10: predicate algebra laws - (P & Q)(v) = P(v) and Q(v),
\* (P | Q)(v) = P(v) or Q(v), (~P)(v) = not P(v), (P ^ Q)(v) = (P(v) != Q(v)),
\* P.implies(Q)(v) = (not P(v)) or Q(v), and every result is a strict boolean.
C10_AlgebraLaws ==
    \A v \in TestInputs :
        /\ \A i \in 1..Len(preds) : call(preds[i], v)[1] = "bool"
        /\ last.op = "and" =>
               LastR(v) = Bool(Truthy(LastP(v)) /\ Truthy(LastQ(v)))
        /\ last.op = "or" =>
               LastR(v) = Bool(Truthy(LastP(v)) \/ Truthy(LastQ(v)))
        /\ last.op = "invert" => LastR(v) = Bool(~Truthy(LastP(v)))
        /\ last.op = "xor" =>
               LastR(v) = Bool(Truthy(LastP(v)) # Truthy(LastQ(v)))
        /\ last.op = "implies" =>
               LastR(v) = Bool(~Truthy(LastP(v)) \/ Truthy(LastQ(v)))

\* a conjunction of a test that accepts 1 and a test that rejects it was
\* built and rejects 1
C10_Witness ==
    /\ last.op = "and"
    /\ call(preds[last.self], <<"int", 1>>) = Bool(TRUE)
    /\ call(preds[last.other], <<"int", 1>>) = Bool(FALSE)
    /\ call(preds[last.out], <<"int", 1>>) = Bool(FALSE)

(* --------- predicates/predicate.py: at_least, at_most, exactly --------- *)
MaxN == 2          \* largest n passed to at_least / at_most / exactly
MaxIterLen == 3    \* longest iterable a quantified predicate is applied to

\* the n a caller passes: the negative -1 and 0..MaxN
NValues == (0 - 1)..MaxN

\* the elements of the iterables: one rejected by every base predicate, one
\* accepted by some, one accepted by all
IterInputs == { <<"int", 0>>, <<"int", 1>>, <<"int", 4>> }

\* the iterables a quantified predicate is applied to: lists of these
TestIterables == { <<"list", s>> : s \in SeqsUpTo(IterInputs, MaxIterLen) }

\* what a call of at_least / at_most / exactly did: it returned a Predicate
\* (no statement of the three methods raises)
Constructed == <<"return", <<"Predicate">> >>

InitQuant ==
    /\ preds = BasePreds
    /\ last = [op |-> "none", self |-> 0, n |-> 0, out |-> 0]
    /\ x = <<"None", 0>>
    /\ hint = <<"Any">>
    /\ opts = DEFAULT_ENFORCE_OPTIONS
    /\ result = <<"none", <<"None">> >>
    /\ pc = "idle"

\* q = base.<op>(n): the caller binds the returned predicate, dropping the
\* quantified predicate it held before
Bind(op, i, n, p) ==
    /\ preds' = Append(BasePreds, p)
    /\ last' = [op |-> op, self |-> i, n |-> n, out |-> Len(BasePreds) + 1]
    /\ result' = Constructed
    /\ pc' = "constructed"
    /\ UNCHANGED <<x, hint, opts>>

AtLeast == \E i \in 1..Len(BasePreds), n \in NValues : Bind("at_least", i, n, at_least(BasePreds[i], n))

AtMost == \E i \in 1..Len(BasePreds), n \in NValues : Bind("at_most", i, n, at_most(BasePreds[i], n))

Exactly == \E i \in 1..Len(BasePreds), n \in NValues : Bind("exactly", i, n, exactly(BasePreds[i], n))

\* q(it): the quantified predicate is applied to an iterable
CallQuantified ==
    /\ Len(preds) > Len(BasePreds)
    /\ \E it \in TestIterables :
          /\ x' = it
          /\ result' = <<"return", call(preds[Len(preds)], it)>>
    /\ pc' = "called"
    /\ UNCHANGED <<hint, opts, preds, last>>

NextQuant == AtLeast \/ AtMost \/ Exactly \/ CallQuantified

SpecQuant == InitQuant /\ [][NextQuant]_vars

\* the number of elements of x that the wrapped predicate accepts
AcceptedCount ==
    Cardinality({ i \in 1..Len(Iter(x)) : Truthy(call(BasePreds[last.self], Iter(x)[i])) })

\* the quantified predicate built by `op` with a non-negative n was applied
Quantified(op) == pc = "called" /\ last.op = op /\ last.n >= 0

\* the quantified predicate accepted x
Accepts == result = <<"return", Bool(TRUE)>>

C12_AtMostIff == Quantified("at_most") => (Accepts <=> AcceptedCount <= last.n)

\* C13: exactly(n) for n >= 0 accepts an iterable if and only if the number
\* of its elements accepted by the wrapped predicate equals n
C13_ExactlyIff == Quantified("exactly") => (Accepts <=> AcceptedCount = last.n)

\* C14: at_least(n), at_most(n) and exactly(n) with a negative n raise at
\* construction time: no predicate is returned, and none is ever applied
C14_NegativeNRaises ==
    (last.op \in {"at_least", "at_most", "exactly"} /\ last.n < 0) =>
        (pc = "constructed" /\ result[1] = "raise")

(* ---------- predicates/predicate.py: render_msg and validate ----------- *)
MaxTokens == 2     \* most replacement-field tokens in a static message

RECURSIVE repr_items(_, _)
RECURSIVE repr(_)
\* ", ".join(repr(e) for e in items[i:])
repr_items(items, i) ==
    IF i > Len(items) THEN ""
    ELSE repr(items[i]) \o (IF i < Len(items) THEN ", " ELSE "") \o repr_items(items, i + 1)

\* repr(x), as {x!r} writes it
repr(v) ==
    CASE v[1] = "int" -> ToString(v[2])
      [] v[1] = "bool" -> IF v[2] = 1 THEN "True" ELSE "False"
      [] v[1] = "None" -> "None"
      [] v[1] = "str" -> "'" \o v[2] \o "'"
      [] v[1] = "list" -> "[" \o repr_items(v[2], 1) \o "]"

\* format(x, ""), as the replacement field {x} writes it
format_value(v) == IF v[1] = "str" THEN v[2] ELSE repr(v)

\* the pieces str.format splits a format string into: literal text, an
\* escaped brace, a replacement field, or a brace that opens or closes nothing
FormatTokens ==
    { <<"lit", "got ">>, <<"escape", "{{">>,
      <<"field", "x">>, <<"field", "y">>, <<"field", "0">>,
      <<"brace", "{">>, <<"brace", "}">> }

\* the text of one token in the format string
TokenText(t) == IF t[1] = "field" THEN "{" \o t[2] \o "}" ELSE t[2]

\* token sequences that str.format splits the way they are written: a lone
\* "{" ends the string, a lone "}" is not followed by a "}"
WellSplit(ts) ==
    \A i \in 1..Len(ts) :
        /\ ts[i] = <<"brace", "{">> => i = Len(ts)
        /\ (ts[i] = <<"brace", "}">> /\ i < Len(ts)) => ts[i + 1] # <<"brace", "}">>
        /\ (ts[i][1] = "lit" /\ i < Len(ts)) => ts[i + 1][1] # "lit"

Templates == { ts \in SeqsUpTo(FormatTokens, MaxTokens) : WellSplit(ts) }

RECURSIVE TemplateText(_, _)
\* the format string a token sequence spells
TemplateText(ts, i) == IF i > Len(ts) THEN "" ELSE TokenText(ts[i]) \o TemplateText(ts, i + 1)

\* the static messages predicates are built with
TemplateStrings == { TemplateText(ts, 1) : ts \in Templates }

\* str.format's split of each static message
TokensOf == [s \in TemplateStrings |-> CHOOSE ts \in Templates : TemplateText(ts, 1) = s]

\* str.format's split of s; a string with no brace is one literal
Tokenize(s) == IF s \in TemplateStrings THEN TokensOf[s] ELSE << <<"lit", s>> >>

RECURSIVE format_from(_, _, _, _)
\* s.format(x=x), from token i on with `acc` already written: the first
\* fault, left to right, is the one raised
format_from(ts, i, xv, acc) ==
    IF i > Len(ts) THEN <<"return", <<"str", acc>> >>
    ELSE CASE ts[i][1] = "lit" -> format_from(ts, i + 1, xv, acc \o ts[i][2])
           [] ts[i][1] = "escape" ->
                format_from(ts, i + 1, xv, acc \o (IF ts[i][2] = "{{" THEN "{" ELSE "}"))
           [] ts[i][1] = "brace" -> <<"raise", <<"ValueError", <<>> >> >>
           [] ts[i][1] = "field" ->
                CASE ts[i][2] = "x" -> format_from(ts, i + 1, xv, acc \o format_value(xv))
                  [] ts[i][2] = "y" -> <<"raise", <<"KeyError", <<>> >> >>
                  [] OTHER -> <<"raise", <<"IndexError", <<>> >> >>

\* s.format(x=x)
format(s, xv) == format_from(Tokenize(s), 1, xv, "")

\* try: return s.format(x=x) except KeyError: return s
format_catch(s, xv) ==
    IF format(s, xv) = <<"raise", <<"KeyError", <<>> >> >> THEN <<"return", <<"str", s>> >>
    ELSE format(s, xv)

RECURSIVE render_msg(_, _)
\* Predicate.render_msg; a message <<"lambda", t>> is lambda x: f"<t>{x}"
render_msg(self, xv) ==
    CASE self.msg[1] = "str" -> format_catch(self.msg[2], xv)
      [] self.msg[1] = "lambda" -> <<"return", <<"str", self.msg[2] \o format_value(xv)>> >>
      [] self.msg[1] = "on" ->
            render_msg(self.msg[3], IF xv[1] # "None" THEN Getter(self.msg[2], xv) ELSE xv)
      [] self.msg[1] = "over_iter" ->
            LET sample == IF xv[1] # "None" /\ Len(Iter(xv)) > 0 THEN Iter(xv)[1]
                          ELSE <<"None", 0>>
                base == render_msg(self.msg[3], sample)
            IN  IF base[1] = "raise" THEN base
                ELSE <<"return", <<"str", self.msg[2] \o base[2][2]>> >>

\* callable(exc): an exception class and a factory function are callable,
\* an exception instance is not
Callable(exc) == exc[1] \in {"type", "factory"}

\* exc(label, x, message) for the callables tests pass: an exception class
\* keeps its arguments, the factory of test_validate_with_exception_factory
\* returns RuntimeError(f"{label}|{value}|{message}")
CallExc(exc, label, xv, message) ==
    IF exc[1] = "type" THEN <<exc[2], << <<"str", label>>, xv, <<"str", message>> >> >>
    ELSE <<"RuntimeError",
           << <<"str", label \o "|" \o format_value(xv) \o "|" \o message>> >> >>

\* Predicate.validate
validate(self, xv, label, exc) ==
    IF Truthy(call(self, xv)) THEN <<"return", xv>>
    ELSE LET r == render_msg(self, xv)
             message == label \o ": " \o r[2][2] \o " (got " \o repr(xv) \o ")"
         IN  IF r[1] = "raise" THEN r
             ELSE IF Callable(exc) THEN <<"raise", CallExc(exc, label, xv, message)>>
             ELSE <<"raise", <<"TypeError", <<>> >> >>

\* make_positive(msg) of the tests
make_positive(msg) == NewPredicate(<<"test", "is_pos">>, "is positive", msg)

\* the values handed to validate, one rejected and one accepted
ValidateInputs == { <<"int", -1>>, <<"int", 1>> }

\* the values handed to render_msg: these and the default None
MsgInputs == ValidateInputs \cup { <<"None", 0>> }

\* no validate call yet: its defaults, label "value" and exc ValueError
NoValidate(op) == [op |-> op, label |-> "value", exc |-> <<"type", "ValueError">>]

\* the labels handed to validate
Labels == {"value", "my_value"}

\* the exc handed to validate: exception classes and a factory
Excs == { <<"type", "ValueError">>, <<"type", "KeyError">>, <<"factory", "factory">> }

InitMsg ==
    /\ preds = << make_positive(<<"None">>) >>
    /\ last = NoValidate("none")
    /\ x = <<"None", 0>>
    /\ hint = <<"Any">>
    /\ opts = DEFAULT_ENFORCE_OPTIONS
    /\ result = <<"none", <<"None">> >>
    /\ pc = "idle"

\* pred = make_positive(msg) with a static message
MakePositive ==
    \E s \in TemplateStrings :
        /\ preds' = << make_positive(<<"str", s>>) >>
        /\ last' = NoValidate("make_positive")
        /\ result' = <<"return", <<"Predicate">> >>
        /\ pc' = "constructed"
        /\ UNCHANGED <<x, hint, opts>>

\* pred.render_msg(x)
RenderMsg ==
    \E xv \in MsgInputs :
        /\ x' = xv
        /\ result' = render_msg(preds[1], xv)
        /\ last' = NoValidate("render_msg")
        /\ pc' = "called"
        /\ UNCHANGED <<hint, opts, preds>>

\* pred.validate(x, label=label, exc=exc)
Validate ==
    \E xv \in ValidateInputs, label \in Labels, exc \in Excs :
        /\ x' = xv
        /\ result' = validate(preds[1], xv, label, exc)
        /\ last' = [op |-> "validate", label |-> label, exc |-> exc]
        /\ pc' = "called"
        /\ UNCHANGED <<hint, opts, preds>>

NextMsg == MakePositive \/ RenderMsg \/ Validate

SpecMsg == InitMsg /\ [][NextMsg]_vars

\* validate was called and either accepted x or rendered the message
Validated == last.op = "validate" /\ render_msg(preds[1], x)[1] = "return"

\* '<label>: <render_msg(x)> (got <repr(x)>)'
ValidateMessage ==
    last.label \o ": " \o render_msg(preds[1], x)[2][2] \o " (got " \o repr(x) \o ")"

\* C15: validate returns x unchanged when the predicate accepts x; when it
\* rejects x it raises, with the message '<label>: <render_msg(x)> (got
\* <repr(x)>)', the type exc constructed with the message as its single
\* argument, or the result of factory(label, x, message)
C15_ValidateContract ==
    Validated =>
        IF Truthy(call(preds[1], x)) THEN result = <<"return", x>>
        ELSE /\ result[1] = "raise"
             /\ last.exc[1] = "type" =>
                    result[2] = <<last.exc[2], << <<"str", ValidateMessage>> >> >>
             /\ last.exc[1] = "factory" =>
                    result[2] = CallExc(last.exc, last.label, x, ValidateMessage)

\* C16: render_msg never raises for a static message string: a formatting
\* fault of any kind (missing key, positional index, unbalanced brace) is
\* swallowed and the raw string returned unchanged
C16_RenderNeverRaises ==
    (last.op = "render_msg" /\ preds[1].msg[1] = "str") =>
        /\ result[1] = "return"
        /\ format(preds[1].msg[2], x)[1] = "raise" => result = <<"return", preds[1].msg>>

(* -------- predicates/predicate.py: lift and render_with_context -------- *)
MaxLifts == 6       \* longest chain of successive lifts from the root
MaxChainArg == 7    \* largest max_chain passed to render_with_context

\* the default of render_with_context's max_chain
DefaultMaxChain == 6

\* seq[start:], Python's slice with a 0-based, possibly negative start
PySliceFrom(seq, start) ==
    LET n == Len(seq)
        s == IF start < 0 THEN (IF n + start < 0 THEN 0 ELSE n + start)
             ELSE (IF start > n THEN n ELSE start)
    IN  SubSeq(seq, s + 1, n)

RECURSIVE join_names(_, _)
\* " -> ".join("'" + pred.name + "'" for pred in ps[i:])
join_names(ps, i) ==
    IF i > Len(ps) THEN ""
    ELSE "'" \o ps[i].name \o "'" \o (IF i < Len(ps) THEN " -> " ELSE "") \o join_names(ps, i + 1)

\* Predicate.render_with_context
render_with_context(self, xv, max_chain) ==
    LET msg == render_msg(self, xv)
    IN  IF msg[1] = "raise" THEN msg
        ELSE IF Len(self.context) = 0 THEN msg
        ELSE <<"return",
               <<"str", msg[2][2] \o " [via "
                        \o join_names(Append(PySliceFrom(self.context, 1 - max_chain), self), 1)
                        \o "]">> >>

\* the (name, msg) given to the k-th lift: the name None (copy the source's)
\* or a new one, the message plain or with a positional field
LiftArgs(k) ==
    { << <<"None">>, <<"str", "expected even positive number">> >>,
      << <<"str", "L" \o ToString(k)>>, <<"str", "expected even positive number">> >>,
      << <<"str", "L" \o ToString(k)>>, <<"str", "got {0}">> >> }

InitLift ==
    /\ preds = << make_positive(<<"str", "got {x}">>) >>
    /\ last = [op |-> "none", max_chain |-> DefaultMaxChain]
    /\ x = <<"None", 0>>
    /\ hint = <<"Any">>
    /\ opts = DEFAULT_ENFORCE_OPTIONS
    /\ result = <<"none", <<"None">> >>
    /\ pc = "idle"

\* lifted = preds[-1].lift(func, name, msg): one more link of the chain
Lift ==
    /\ Len(preds) <= MaxLifts
    /\ \E a \in LiftArgs(Len(preds)) :
          preds' = Append(preds, lift(preds[Len(preds)], <<"test", "gt3">>, a[1], a[2]))
    /\ last' = [op |-> "lift", max_chain |-> DefaultMaxChain]
    /\ result' = <<"return", <<"Predicate">> >>
    /\ pc' = "constructed"
    /\ UNCHANGED <<x, hint, opts>>

\* preds[-1].render_with_context(3, max_chain=max_chain)
RenderWithContext ==
    /\ \E max_chain \in 1..MaxChainArg :
          /\ result' = render_with_context(preds[Len(preds)], <<"int", 3>>, max_chain)
          /\ last' = [op |-> "render_with_context", max_chain |-> max_chain]
    /\ x' = <<"int", 3>>
    /\ pc' = "called"
    /\ UNCHANGED <<hint, opts, preds>>

NextLift == Lift \/ RenderWithContext

SpecLift == InitLift /\ [][NextLift]_vars

\* the last predicate of the chain and its ancestors, oldest first
Tip == preds[Len(preds)]
Ancestors == SubSeq(preds, 1, Len(preds) - 1)

\* render_with_context returned the message followed by the chain of `named`
Lists(named) ==
    result = <<"return",
               <<"str", render_msg(Tip, x)[2][2] \o " [via " \o join_names(named, 1) \o "]">> >>

\* render_with_context was called with `max_chain` and returned
Rendered(max_chain) ==
    /\ last.op = "render_with_context"
    /\ last.max_chain = max_chain
    /\ result[1] = "return"

C20_Truncation ==
    (last.op = "render_with_context" /\ result[1] = "return" /\ Len(Tip.context) > 0) =>
        LET k == Len(Tip.context)
            m == IF last.max_chain - 1 < k THEN last.max_chain - 1 ELSE k
        IN  Lists(Append(SubSeq(Tip.context, k - m + 1, k), Tip))

(* ------- predicates/predicate.py: derivations and their context -------- *)
MaxDerived == 2    \* most predicates derived from the root, one from another

InitDerive ==
    /\ preds = << make_positive(<<"None">>) >>
    /\ last = NoLast
    /\ x = <<"None", 0>>
    /\ hint = <<"Any">>
    /\ opts = DEFAULT_ENFORCE_OPTIONS
    /\ result = <<"none", <<"None">> >>
    /\ pc = "idle"

\* d = <derivation of preds[i] (and preds[j])>: the caller keeps d
Derive(op, i, j, p) ==
    /\ Len(preds) <= MaxDerived
    /\ preds' = Append(preds, p)
    /\ last' = [op |-> op, self |-> i, other |-> j, out |-> Len(preds) + 1]
    /\ result' = <<"return", <<"Predicate">> >>
    /\ pc' = "constructed"
    /\ UNCHANGED <<x, hint, opts>>

DeriveLift ==
    \E i \in 1..Len(preds), a \in LiftArgs(Len(preds)) :
        Derive("lift", i, i, lift(preds[i], <<"test", "gt3">>, a[1], a[2]))

DeriveOn == \E i \in 1..Len(preds) : Derive("on", i, i, on(preds[i], "data"))

DeriveQuantify ==
    \E i \in 1..Len(preds) :
        Derive("quantify", i, i, quantify(preds[i], <<"all">>, "each", "for each element: "))

DeriveAll == \E i \in 1..Len(preds) : Derive("all", i, i, all(preds[i]))

DeriveAny == \E i \in 1..Len(preds) : Derive("any", i, i, any(preds[i]))

DeriveAtLeast == \E i \in 1..Len(preds) : Derive("at_least", i, i, at_least(preds[i], 1))

DeriveAtMost == \E i \in 1..Len(preds) : Derive("at_most", i, i, at_most(preds[i], 1))

DeriveExactly == \E i \in 1..Len(preds) : Derive("exactly", i, i, exactly(preds[i], 1))

CombineAnd == \E i, j \in 1..Len(preds) : Derive("and", i, j, __and__(preds[i], preds[j]))

CombineOr == \E i, j \in 1..Len(preds) : Derive("or", i, j, __or__(preds[i], preds[j]))

CombineInvert == \E i \in 1..Len(preds) : Derive("invert", i, i, __invert__(preds[i]))

CombineXor == \E i, j \in 1..Len(preds) : Derive("xor", i, j, __xor__(preds[i], preds[j]))

CombineImplies == \E i, j \in 1..Len(preds) : Derive("implies", i, j, implies(preds[i], preds[j]))

NextDerive ==
    \/ DeriveLift \/ DeriveOn \/ DeriveQuantify \/ DeriveAll \/ DeriveAny
    \/ DeriveAtLeast \/ DeriveAtMost \/ DeriveExactly
    \/ CombineAnd \/ CombineOr \/ CombineInvert \/ CombineXor \/ CombineImplies

SpecDerive == InitDerive /\ [][NextDerive]_vars

\* C18: the predicates returned by on(getter) and by quantify, all, any,
\* at_least, at_most and exactly have context (*self.context, self), the
\* source predicate appended last
C18_DerivationsGrowContext ==
    last.op \in {"on", "quantify", "all", "any", "at_least", "at_most", "exactly"} =>
        preds[last.out].context = Append(preds[last.self].context, preds[last.self])

\* C19: the predicates produced by P & Q, P | Q, ~P, P ^ Q and P.implies(Q)
\* have empty context, whatever the contexts of P and Q are
C19_CombinationsArePeers ==
    last.op \in {"and", "or", "invert", "xor", "implies"} =>
        Len(preds[last.out].context) = 0

\* an operand of the combination has a non-empty context
C19_Witness ==
    /\ last.op \in {"and", "or", "invert", "xor", "implies"}
    /\ Len(preds[last.self].context) > 0
    /\ Len(preds[last.other].context) > 0

(* ------ predicates/predicate.py: the message of a quantified predicate ------ *)
\* the messages the source predicate is built with: the default, a static
\* one, a dynamic one
SourceMsgs == { <<"None">>, <<"str", "got {x}">>, <<"lambda", "got invalid value ">> }

\* the prefixes passed to quantify directly, the empty one included
QuantifyPrefixes == { "", "for each element: " }

InitQuantMsg ==
    /\ \E m \in SourceMsgs : preds = << make_positive(m) >>
    /\ last = [op |-> "none", prefix |-> ""]
    /\ x = <<"None", 0>>
    /\ hint = <<"Any">>
    /\ opts = DEFAULT_ENFORCE_OPTIONS
    /\ result = <<"none", <<"None">> >>
    /\ pc = "idle"

\* q = source.<op>(...): the caller binds the quantified predicate, built
\* with `prefix`, in place of the one it held before
BindQuantified(op, prefix, q) ==
    /\ preds' = << preds[1], q >>
    /\ last' = [op |-> op, prefix |-> prefix]
    /\ result' = Constructed
    /\ pc' = "constructed"
    /\ UNCHANGED <<x, hint, opts>>

BindQuantify ==
    \E prefix \in QuantifyPrefixes :
        BindQuantified("quantify", prefix, quantify(preds[1], <<"all">>, "each", prefix))

BindAll == BindQuantified("all", "for every element: ", all(preds[1]))

BindAny == BindQuantified("any", "for at least one element: ", any(preds[1]))

BindAtLeast ==
    \E n \in 0..MaxN :
        BindQuantified("at_least", "for at least " \o ToString(n) \o " elements: ",
                       at_least(preds[1], n))

BindAtMost ==
    \E n \in 0..MaxN :
        BindQuantified("at_most", "for at most " \o ToString(n) \o " elements: ",
                       at_most(preds[1], n))

BindExactly ==
    \E n \in 0..MaxN :
        BindQuantified("exactly", "for at least " \o ToString(n) \o " elements: ",
                       exactly(preds[1], n))

\* q.render_msg(it)
RenderQuantified ==
    /\ Len(preds) = 2
    /\ \E it \in TestIterables :
          /\ x' = it
          /\ result' = render_msg(preds[2], it)
    /\ last' = [last EXCEPT !.op = "render_msg"]
    /\ pc' = "called"
    /\ UNCHANGED <<hint, opts, preds>>

NextQuantMsg ==
    \/ BindQuantify \/ BindAll \/ BindAny \/ BindAtLeast \/ BindAtMost \/ BindExactly
    \/ RenderQuantified

SpecQuantMsg == InitQuantMsg /\ [][NextQuantMsg]_vars

\* the representative element of x: its first element, or None if it is empty
Representative == IF Len(Iter(x)) > 0 THEN Iter(x)[1] ELSE <<"None", 0>>

\* C21: the message of the predicate built by quantify(..., prefix=p),
\* rendered for an iterable, is p followed by the source predicate's message
\* rendered for the first element of the iterable, or for None when it is
\* empty, whether the source's message is static or dynamic
C21_QuantifiedMessage ==
    last.op = "render_msg" =>
        result = <<"return",
                   <<"str", last.prefix \o render_msg(preds[1], Representative)[2][2]>> >>

(* ------ predicates/predicate.py: which tests an evaluation invokes ------ *)
RECURSIVE LoopPulls(_, _, _, _)
\* how many items the for loop of at_least / at_most / exactly pulls from
\* bits: it stops at the first item with count >= n
LoopPulls(items, n, i, count) ==
    IF i > Len(items) THEN Len(items)
    ELSE LET c == count + (IF Truthy(items[i]) THEN 1 ELSE 0)
         IN  IF c >= n THEN i ELSE LoopPulls(items, n, i + 1, c)

RECURSIVE ScanPulls(_, _, _)
\* how many items all() (stop = FALSE) or any() (stop = TRUE) pulls: it
\* stops at the first item whose truth value is `stop`
ScanPulls(items, stop, i) ==
    IF i > Len(items) THEN Len(items)
    ELSE IF Truthy(items[i]) = stop THEN i ELSE ScanPulls(items, stop, i + 1)

\* how many items of the generator the quantifier q pulls; each pull runs
\* self.__func on one more element
Pulls(q, bits) ==
    CASE q[1] = "all" -> ScanPulls(bits[2], FALSE, 1)
      [] q[1] = "any" -> ScanPulls(bits[2], TRUE, 1)
      [] q[1] = "at_most" -> LoopPulls(bits[2], q[2], 1, 0)
      [] q[1] \in {"at_least", "exactly"} ->
            IF SizeOf(bits) # -1 /\ SizeOf(bits) < q[2] THEN 0
            ELSE LoopPulls(bits[2], q[2], 1, 0)

RECURSIVE Invoked(_, _)
RECURSIVE InvokedOver(_, _, _, _)
\* the test functions the wrapped function f invokes on v, in order, each as
\* <<test, argument>>
Invoked(f, v) ==
    CASE f[1] = "test" -> << <<f[2], v>> >>
      [] f[1] = "and" ->
            Invoked(f[2].func, v) \o (IF Truthy(call(f[2], v)) THEN Invoked(f[3].func, v) ELSE <<>>)
      [] f[1] = "or" ->
            Invoked(f[2].func, v) \o (IF Truthy(call(f[2], v)) THEN <<>> ELSE Invoked(f[3].func, v))
      [] f[1] = "not" -> Invoked(f[2].func, v)
      [] f[1] = "quantify" ->
            InvokedOver(f[3].func, Iter(v), 1,
                        Pulls(f[2], <<"generator",
                                      [i \in 1..Len(Iter(v)) |-> ApplyFunc(f[3].func, Iter(v)[i])]>>))
      [] f[1] = "on" -> Invoked(f[3].func, Getter(f[2], v))

\* the tests invoked while the generator yields items i..upto
InvokedOver(f, items, i, upto) ==
    IF i > upto THEN <<>> ELSE Invoked(f, items[i]) \o InvokedOver(f, items, i + 1, upto)

InitInvoke ==
    /\ preds = BasePreds
    /\ last = [op |-> "none", self |-> 0, other |-> 0, n |-> 0, calls |-> <<>>]
    /\ x = <<"None", 0>>
    /\ hint = <<"Any">>
    /\ opts = DEFAULT_ENFORCE_OPTIONS
    /\ result = <<"none", <<"None">> >>
    /\ pc = "idle"

\* d = <derivation of BasePreds[i] (and BasePreds[j])>: the caller binds d in
\* place of the derived predicate it held before
BindDerived(op, i, j, n, d) ==
    /\ preds' = Append(BasePreds, d)
    /\ last' = [op |-> op, self |-> i, other |-> j, n |-> n, calls |-> <<>>]
    /\ result' = Constructed
    /\ pc' = "constructed"
    /\ UNCHANGED <<x, hint, opts>>

InvokeAtLeast ==
    \E i \in 1..Len(BasePreds), n \in 0..MaxN :
        BindDerived("at_least", i, i, n, at_least(BasePreds[i], n))

InvokeExactly ==
    \E i \in 1..Len(BasePreds), n \in 0..MaxN :
        BindDerived("exactly", i, i, n, exactly(BasePreds[i], n))

InvokeAnd ==
    \E i, j \in 1..Len(BasePreds) :
        BindDerived("and", i, j, 0, __and__(BasePreds[i], BasePreds[j]))

InvokeOr ==
    \E i, j \in 1..Len(BasePreds) :
        BindDerived("or", i, j, 0, __or__(BasePreds[i], BasePreds[j]))

\* d(v): the derived predicate is evaluated; `calls` is what it invoked
Evaluate ==
    /\ Len(preds) > Len(BasePreds)
    /\ \E v \in (IF last.op \in {"and", "or"} THEN TestInputs ELSE TestIterables) :
          /\ x' = v
          /\ result' = <<"return", call(preds[Len(preds)], v)>>
          /\ last' = [last EXCEPT !.calls = Invoked(preds[Len(preds)].func, v)]
    /\ pc' = "called"
    /\ UNCHANGED <<hint, opts, preds>>

NextInvoke == InvokeAtLeast \/ InvokeExactly \/ InvokeAnd \/ InvokeOr \/ Evaluate

SpecInvoke == InitInvoke /\ [][NextInvoke]_vars

\* C22: the predicate built by at_least(n) or exactly(n), applied to a sized
\* collection with fewer than n elements, returns false without invoking
\* the wrapped test on any element
C22_SizedShortCircuit ==
    (pc = "called" /\ last.op \in {"at_least", "exactly"} /\ Len(Iter(x)) < last.n) =>
        /\ result = <<"return", Bool(FALSE)>>
        /\ Len(last.calls) = 0

\* the operands of the combination that was evaluated, and one invocation of
\* an operand's test on x
LeftSide == BasePreds[last.self]
RightSide == BasePreds[last.other]
Once(p) == << <<p.func[2], x>> >>

\* C28: (P & Q)(v) invokes P's test first and Q's test only when P(v) is
\* true; (P | Q)(v) invokes P's test first and Q's test only when P(v) is
\* false; each side's test runs at most once per evaluation
C28_ShortCircuitOrder ==
    /\ (pc = "called" /\ last.op = "and") =>
          last.calls = Once(LeftSide) \o (IF Truthy(call(LeftSide, x)) THEN Once(RightSide) ELSE <<>>)
    /\ (pc = "called" /\ last.op = "or") =>
          last.calls = Once(LeftSide) \o (IF Truthy(call(LeftSide, x)) THEN <<>> ELSE Once(RightSide))

\* a conjunction of two different tests was evaluated on a value its left
\* side accepts, so both tests ran
C28_Witness ==
    /\ pc = "called"
    /\ last.op = "and"
    /\ last.self # last.other
    /\ Truthy(call(LeftSide, x))
    /\ Len(last.calls) = 2

(* --------- predicates/predicate.py: with_name, with_msg, frames --------- *)
\* the names and messages given to with_name and with_msg
CloneNames == { "renamed", "is positive" }
CloneMsgs == { <<"str", "got {x}">>, <<"lambda", "got invalid value ">> }

CloneWithName ==
    \E i \in 1..Len(preds), name \in CloneNames :
        Derive("with_name", i, i, with_name(preds[i], name))

CloneWithMsg ==
    \E i \in 1..Len(preds), msg \in CloneMsgs :
        Derive("with_msg", i, i, with_msg(preds[i], msg))

NextClone ==
    \/ CloneWithName \/ CloneWithMsg
    \/ DeriveLift \/ DeriveOn \/ DeriveQuantify
    \/ CombineAnd \/ CombineOr \/ CombineInvert

SpecClone == InitDerive /\ [][NextClone]_vars

\* one step leaves every predicate that exists as it is and, when it is a
\* with_name or a with_msg, adds the receiver with that one field replaced
CloneStep ==
    /\ \A i \in 1..Len(preds) :
          /\ preds'[i] = preds[i]
          /\ preds[i].func[1] = "test" =>
                 \A v \in TestInputs : call(preds'[i], v) = call(preds[i], v)
    /\ last'.op = "with_name" =>
          preds'[last'.out] = [preds[last'.self] EXCEPT !.name = preds'[last'.out].name]
    /\ last'.op = "with_msg" =>
          preds'[last'.out] = [preds[last'.self] EXCEPT !.msg = preds'[last'.out].msg]

\* C23: with_name and with_msg return a new predicate that differs from the
\* receiver only in the overridden field (same test, same context, the other
\* field unchanged), and no with_name, with_msg, lift, on, quantify, &, | or ~
\* changes the name, message, context or acceptance of a predicate that
\* already exists
C23_ClonesAndFrames == [][CloneStep]_vars

\* with_name was applied to a predicate that has a context and a message of
\* its own
C23_Witness ==
    /\ last.op = "with_name"
    /\ Len(preds[last.self].context) > 0
    /\ preds[last.out].name # preds[last.self].name

(* ------------- predicates/compile.py: as_predicate and its cache ------------- *)
MaxCache == 2     \* capacity of the cache in the model

\* maxsize of the lru_cache around _hint_pred_cached
_CACHE_SIZE == 2048

\* the capacity the model runs with: the program's, cut down to the bound
Capacity == IF _CACHE_SIZE < MaxCache THEN _CACHE_SIZE ELSE MaxCache

RECURSIVE HintHashable(_)
RECURSIVE AllHintsHashable(_, _)
\* hash(hint) succeeds: a Literal hashes its values, a generic or a Union its
\* arguments
HintHashable(h) ==
    CASE h[1] = "Literal" -> AllHashable(h[2], 1)
      [] h[1] = "Union" -> AllHintsHashable(h[2], 1)
      [] h[1] = "generic" -> AllHintsHashable(h[3], 1)
      [] h[1] = "Annotated" -> HintHashable(h[2])
      [] OTHER -> TRUE

AllHintsHashable(hs, i) ==
    IF i > Len(hs) THEN TRUE ELSE HintHashable(hs[i]) /\ AllHintsHashable(hs, i + 1)

\* a Literal value with its type, as Literal.__eq__ compares values
ValueAndType(v) == <<TypeOf(v), v>>

RECURSIVE HintEq(_, _)
\* hint == other, the equality lru_cache looks keys up with: a Union compares
\* the set of its arguments, a Literal the set of its typed values, a generic
\* its origin and arguments in order
HintEq(a, b) ==
    IF a[1] # b[1] THEN FALSE
    ELSE CASE a[1] = "Union" ->
                /\ \A i \in 1..Len(a[2]) : \E j \in 1..Len(b[2]) : HintEq(a[2][i], b[2][j])
                /\ \A j \in 1..Len(b[2]) : \E i \in 1..Len(a[2]) : HintEq(a[2][i], b[2][j])
           [] a[1] = "Literal" ->
                { ValueAndType(a[2][i]) : i \in 1..Len(a[2]) }
                    = { ValueAndType(b[2][i]) : i \in 1..Len(b[2]) }
           [] a[1] = "generic" ->
                /\ a[2] = b[2]
                /\ Len(a[3]) = Len(b[3])
                /\ \A i \in 1..Len(a[3]) : HintEq(a[3][i], b[3][i])
           [] a[1] = "Annotated" -> HintEq(a[2], b[2])
           [] OTHER -> a = b

RECURSIVE _join_or(_, _, _)
\* repr._join_or: the parts not seen before, joined by " or "
_join_or(parts, i, out) ==
    IF i > Len(parts) THEN out
    ELSE IF \E j \in 1..(i - 1) : parts[j] = parts[i] THEN _join_or(parts, i + 1, out)
    ELSE _join_or(parts, i + 1, IF out = "" THEN parts[i] ELSE out \o " or " \o parts[i])

RECURSIVE type_repr(_)
\* repr.type_repr, for classes, None, Any, Annotated, Literal, Union and the
\* one-argument builtin generics
type_repr(h) ==
    CASE h[1] = "Any" -> "Any"
      [] h[1] = "NoneHint" -> "None"
      [] h[1] = "cls" -> h[2]
      [] h[1] = "Annotated" -> type_repr(h[2])
      [] h[1] = "Literal" -> _join_or([i \in 1..Len(h[2]) |-> repr(h[2][i])], 1, "")
      [] h[1] = "Union" -> _join_or([i \in 1..Len(h[2]) |-> type_repr(h[2][i])], 1, "")
      [] h[1] = "generic" -> h[2] \o "[" \o type_repr(h[3][1]) \o "]"

\* the Predicate both _hint_pred_cached and _hint_pred_uncached build: its
\* function is lambda x: matches_hint(x, hint, opts)
_hint_pred_uncached(h, o) ==
    NewPredicate(<<"hint", h, o>>, "'" \o type_repr(h) \o "'", <<"None">>)

\* the outcome of p(v) for such a predicate: bool(matches_hint(v, hint, opts))
CallHintPred(p, v) == matches_hint(v, p.func[2], p.func[3])

\* the cache's key of an entry and of a call: the hint and the three options
SameKey(p, h, o) == HintEq(p.func[2], h) /\ p.func[3] = o

\* the position of the call's key in the cache (least recently used first),
\* 0 if it is not there
CacheIndex(cache, h, o) ==
    IF \E i \in 1..Len(cache) : SameKey(cache[i], h, o)
    THEN CHOOSE i \in 1..Len(cache) : SameKey(cache[i], h, o)
    ELSE 0

\* the cache without its entry i
Without(cache, i) == SubSeq(cache, 1, i - 1) \o SubSeq(cache, i + 1, Len(cache))

\* lru_cache's store after a miss: the least recently used entry makes room
Store(cache, cap, p) == Append(IF Len(cache) >= cap THEN Tail(cache) ELSE cache, p)

\* _hint_pred_cached under lru_cache: <<returned predicate, cache afterwards>>
_hint_pred_cached(cache, h, o) ==
    LET i == CacheIndex(cache, h, o)
    IN  IF i > 0 THEN <<cache[i], Append(Without(cache, i), cache[i])>>
        ELSE <<_hint_pred_uncached(h, o), Store(cache, Capacity, _hint_pred_uncached(h, o))>>

\* as_predicate(spec, options) for a spec that is not a Predicate
as_predicate(cache, h, o) ==
    IF HintHashable(h) THEN _hint_pred_cached(cache, h, o)
    ELSE <<_hint_pred_uncached(h, o), cache>>

\* the specs compiled: a class, a generic, a Union in both orders of its
\* members, an unhashable Literal
CacheSpecs ==
    { Cls("int"), <<"generic", "list", <<Cls("int")>> >>,
      <<"Union", << <<"generic", "list", <<Cls("int")>> >>,
                    <<"Literal", << <<"int", 1>>, <<"str", "a">> >> >> >> >>,
      <<"Union", << <<"Literal", << <<"int", 1>>, <<"str", "a">> >> >>,
                    <<"generic", "list", <<Cls("int")>> >> >> >>,
      <<"Literal", << <<"list", << <<"int", 1>> >> >> >> >> }

\* the options compiled with
CacheOptions ==
    { DEFAULT_ENFORCE_OPTIONS,
      [DEFAULT_ENFORCE_OPTIONS EXCEPT !.strict_bools = FALSE],
      [DEFAULT_ENFORCE_OPTIONS EXCEPT !.check_defaults = FALSE] }

\* the values the compiled predicates are applied to
CacheValues ==
    { <<"int", 1>>, <<"bool", 1>>, <<"str", "a">>,
      <<"list", << <<"int", 1>> >> >>, <<"list", << <<"str", "a">> >> >> }

\* preds is the cache, least recently used entry first
InitCache ==
    /\ preds = <<>>
    /\ last = [op |-> "none"]
    /\ x = <<"None", 0>>
    /\ hint = <<"Any">>
    /\ opts = DEFAULT_ENFORCE_OPTIONS
    /\ result = <<"none", <<"None">> >>
    /\ pc = "idle"

\* p = as_predicate(spec, options)
AsPredicate ==
    /\ \E h \in CacheSpecs, o \in CacheOptions :
          /\ hint' = h
          /\ opts' = o
          /\ result' = <<"return", as_predicate(preds, h, o)[1]>>
          /\ preds' = as_predicate(preds, h, o)[2]
    /\ last' = [op |-> "as_predicate"]
    /\ pc' = "compiled"
    /\ UNCHANGED x

NextCache == AsPredicate

SpecCache == InitCache /\ [][NextCache]_vars

\* C24: after any sequence of as_predicate calls (evictions included),
\* as_predicate(spec, opts) returns a predicate that accepts v if and only
\* if matches_hint(v, spec, opts) is true; a predicate cached under one
\* options triple is never returned for another, and an unhashable spec
\* yields an uncached predicate with the same behaviour
C24_CacheTransparency ==
    pc = "compiled" =>
        /\ \A v \in CacheValues :
              CallHintPred(result[2], v) = "True" <=> matches_hint(v, hint, opts) = "True"
        /\ result[2].func[3] = opts
        /\ ~HintHashable(hint) => \A i \in 1..Len(preds) : ~HintEq(preds[i].func[2], hint)

(* ------- predicates/compile.py: two threads compiling the same spec ------- *)
\* the threads calling as_predicate with the same spec and options
Threads == {1, 2}

\* lru_cache after the wrapped call of a miss returned: if the key was added
\* to the cache during the call the result is only returned, else stored
StoreAfterCall(cache, cap, p, h, o) ==
    IF CacheIndex(cache, h, o) > 0 THEN cache ELSE Store(cache, cap, p)

\* the hashable specs the two threads compile
RaceSpecs == { h \in CacheSpecs : HintHashable(h) }

\* the cache the race starts from: empty, or holding entries of earlier calls
EarlierEntries == { _hint_pred_uncached(h, DEFAULT_ENFORCE_OPTIONS) : h \in RaceSpecs }

EarlierCaches ==
    { c \in SeqsUpTo(EarlierEntries, Capacity) :
        \A i, j \in 1..Len(c) : i < j => ~SameKey(c[i], c[j].func[2], c[j].func[3]) }

InitRace ==
    /\ hint \in RaceSpecs
    /\ opts \in CacheOptions
    /\ preds \in EarlierCaches
    /\ pc = [t \in Threads |-> "call"]
    /\ result = [t \in Threads |-> <<"none", <<"None">> >>]
    /\ last = [t \in Threads |-> "none"]
    /\ x = <<"None", 0>>

\* thread t enters _hint_pred_cached: lru_cache looks the key up; a hit
\* returns the cached predicate
Lookup(t) ==
    /\ pc[t] = "call"
    /\ LET i == CacheIndex(preds, hint, opts)
       IN  IF i > 0
           THEN /\ preds' = Append(Without(preds, i), preds[i])
                /\ result' = [result EXCEPT ![t] = <<"return", preds[i]>>]
                /\ pc' = [pc EXCEPT ![t] = "done"]
                /\ last' = [last EXCEPT ![t] = "hit"]
           ELSE /\ pc' = [pc EXCEPT ![t] = "miss"]
                /\ last' = [last EXCEPT ![t] = "miss"]
                /\ UNCHANGED <<preds, result>>
    /\ UNCHANGED <<x, hint, opts>>

\* thread t runs the body of _hint_pred_cached, outside the cache's lock
Compute(t) ==
    /\ pc[t] = "miss"
    /\ result' = [result EXCEPT ![t] = <<"computed", _hint_pred_uncached(hint, opts)>>]
    /\ pc' = [pc EXCEPT ![t] = "computed"]
    /\ UNCHANGED <<x, hint, opts, preds, last>>

\* thread t is back in lru_cache with its result and returns it
Insert(t) ==
    /\ pc[t] = "computed"
    /\ preds' = StoreAfterCall(preds, Capacity, result[t][2], hint, opts)
    /\ result' = [result EXCEPT ![t] = <<"return", result[t][2]>>]
    /\ pc' = [pc EXCEPT ![t] = "done"]
    /\ UNCHANGED <<x, hint, opts, last>>

NextRace == \E t \in Threads : Lookup(t) \/ Compute(t) \/ Insert(t)

SpecRace == InitRace /\ [][NextRace]_vars

\* C25: when two threads call as_predicate at the same time with the same
\* hashable spec and equal options, under every interleaving both calls
\* return a predicate that behaves as matches_hint for that spec and
\* options, the cache holds at most one entry for that key, and the number
\* of cached entries never exceeds the capacity
C25_ConcurrentCompile ==
    /\ \A t \in Threads :
          pc[t] = "done" =>
              \A v \in CacheValues : CallHintPred(result[t][2], v) = matches_hint(v, hint, opts)
    /\ Cardinality({ i \in 1..Len(preds) : SameKey(preds[i], hint, opts) }) <= 1
    /\ Len(preds) <= Capacity

(* --------------------- multimethod.py: overload dispatch ------------------ *)
MaxOverloads == 2
MaxArgs == 2

\* a signature of positional parameters without defaults, by its
\* annotations; an unannotated parameter is normalised to Any by overload
Params(a) == [params |-> a, required |-> Len(a)]

\* the signatures registered: positional parameters, the last one with a
\* default in some
Signatures ==
    { Params(<< <<"Any">> >>), Params(<<Cls("int")>>),
      Params(<< <<"Literal", << <<"int", 1>>, <<"str", "a">> >> >> >>),
      Params(<< <<"generic", "list", <<Cls("int")>> >> >>),
      [params |-> <<Cls("int")>>, required |-> 0],
      Params(<<Cls("int"), <<"Any">> >>),
      [params |-> <<Cls("int"), Cls("str")>>, required |-> 1] }

\* the arguments of the calls
DispatchValues == { <<"int", 1>>, <<"str", "a">>, <<"list", << <<"int", 1>> >> >> }

\* inspect.Signature.bind for positional arguments: every parameter without
\* a default is given and no argument is left over
bind(impl, args) == impl.required <= Len(args) /\ Len(args) <= Len(impl.params)

\* multimethod.overload: the validator of parameter k is as_predicate of its
\* annotation under the multimethod's options
validators(impl, o, k) == _hint_pred_uncached(impl.params[k], o)

\* the loop over bound.arguments in __call__: the first validator that
\* rejects ends it, one that raises ends the call
RECURSIVE validate_arguments(_, _, _, _)
validate_arguments(impl, args, o, k) ==
    IF k > Len(args) THEN "True"
    ELSE LET r == CallHintPred(validators(impl, o, k), args[k])
         IN  IF r = "True" THEN validate_arguments(impl, args, o, k + 1) ELSE r

\* the score of __call__: the number of annotations that are not Any
score(impl) == Cardinality({ k \in 1..Len(impl.params) : impl.params[k] # <<"Any">> })

\* the loop over _implementations in __call__, from implementation i on:
\* the (score, implementation) pairs of the matches, in registration order
RECURSIVE collect_matches(_, _, _, _)
collect_matches(impls, args, o, i) ==
    IF i > Len(impls) THEN <<"matches", <<>> >>
    ELSE IF ~bind(impls[i], args) THEN collect_matches(impls, args, o, i + 1)
    ELSE LET ok == validate_arguments(impls[i], args, o, 1)
         IN  IF ok = "TypeError" THEN <<"raise", "TypeError", "validator">>
             ELSE LET rest == collect_matches(impls, args, o, i + 1)
                  IN  IF rest[1] = "raise" \/ ok = "False" THEN rest
                      ELSE <<"matches", << <<score(impls[i]), i>> >> \o rest[2]>>

\* matches.sort(key=score, reverse=True)[0]: the sort is stable, so the
\* first of the matches with the highest score
first_sorted(m) ==
    m[CHOOSE k \in 1..Len(m) :
        \A j \in 1..Len(m) : m[j][1] < m[k][1] \/ (m[j][1] = m[k][1] /\ j >= k)]

\* multimethod.__call__: the outcome and the implementations invoked
multimethod_call(impls, args, o) ==
    LET c == collect_matches(impls, args, o, 1)
    IN  IF c[1] = "raise" THEN [out |-> c, invoked |-> <<>>]
        ELSE IF c[2] = <<>>
        THEN [out |-> <<"raise", "TypeError", "No overload">>, invoked |-> <<>>]
        ELSE [out |-> <<"return", first_sorted(c[2])[2]>>,
              invoked |-> <<first_sorted(c[2])[2]>>]

\* preds holds _implementations, x the arguments of the last call
InitDispatch ==
    /\ preds = <<>>
    /\ opts \in { DEFAULT_ENFORCE_OPTIONS, [DEFAULT_ENFORCE_OPTIONS EXCEPT !.strict_bools = FALSE] }
    /\ x = <<>>
    /\ hint = <<"Any">>
    /\ result = <<"none">>
    /\ last = [op |-> "none", invoked |-> <<>>]
    /\ pc = "registered"

\* multimethod.overload
Overload ==
    /\ Len(preds) < MaxOverloads
    /\ \E sig \in Signatures : preds' = Append(preds, sig)
    /\ last' = [op |-> "overload", invoked |-> <<>>]
    /\ result' = <<"none">>
    /\ pc' = "registered"
    /\ UNCHANGED <<x, hint, opts>>

\* multimethod.__call__
Dispatch ==
    /\ \E args \in SeqsUpTo(DispatchValues, MaxArgs) :
          LET r == multimethod_call(preds, args, opts)
          IN  /\ x' = args
              /\ result' = r.out
              /\ last' = [op |-> "call", invoked |-> r.invoked]
    /\ pc' = "called"
    /\ UNCHANGED <<preds, hint, opts>>

NextDispatch == Overload \/ Dispatch

SpecDispatch == InitDispatch /\ [][NextDispatch]_vars

\* the registered overloads whose signature binds the call and whose every
\* parameter validator accepts its argument
Matching ==
    { i \in 1..Len(preds) :
        /\ bind(preds[i], x)
        /\ \A k \in 1..Len(x) : CallHintPred(validators(preds[i], opts, k), x[k]) = "True" }

\* among them the one with the most non-Any annotations, the earliest
\* registered of those
MostSpecific ==
    CHOOSE i \in Matching :
        \A j \in Matching :
            score(preds[j]) < score(preds[i]) \/ (score(preds[j]) = score(preds[i]) /\ j >= i)

\* C26: a call to the multimethod invokes exactly one implementation, the
\* most specific of the matching overloads with ties broken by earliest
\* registration; when no overload matches it raises and invokes none
C26_OverloadDispatch ==
    last.op = "call" =>
        IF Matching = {}
        THEN result[1] = "raise" /\ last.invoked = <<>>
        ELSE last.invoked = <<MostSpecific>>

(* ---------------- arg_validation.py: binding and enforce_types ------------ *)
\* a parameter of a signature: its name, its kind and its default
\* (<<"empty">> when it has none)
Param(n, k, d) == [name |-> n, kind |-> k, default |-> d]

empty == <<"empty">>

\* the signatures of the decorated functions:
\* (a)  (a, b)  (a, b=2)  (a, b='d')  (a, *rest)  (a, **kw)  (a, *, b)
\* (a, /, *rest)
BindSignatures ==
    { << Param("a", "pos", empty) >>,
      << Param("a", "pos", empty), Param("b", "pos", empty) >>,
      << Param("a", "pos", empty), Param("b", "pos", <<"int", 2>>) >>,
      << Param("a", "pos", empty), Param("b", "pos", <<"str", "d">>) >>,
      << Param("a", "pos", empty), Param("rest", "vararg", empty) >>,
      << Param("a", "pos", empty), Param("kw", "varkw", empty) >>,
      << Param("a", "pos", empty), Param("b", "kwonly", empty) >>,
      << Param("a", "posonly", empty), Param("rest", "vararg", empty) >> }

\* the values passed, and the names of the keyword arguments
BindValues == { <<"int", 1>>, <<"str", "a">> }
KwNames == { "b", "z" }
KwargsSet == UNION { [S -> BindValues] : S \in SUBSET KwNames }

\* dict item assignment
Put(m, k, v) == [n \in DOMAIN m \cup {k} |-> IF n = k THEN v ELSE m[n]]

Min(a, b) == IF a < b THEN a ELSE b

NameOfKind(sig, k) ==
    IF \E i \in 1..Len(sig) : sig[i].kind = k
    THEN sig[CHOOSE i \in 1..Len(sig) : sig[i].kind = k].name
    ELSE "None"

IsPositional(p) == p.kind \in {"posonly", "pos"}

\* inspect.Signature.bind: positional arguments fill the positional
\* parameters in order and the rest goes to *args; the parameters left are
\* taken from the keywords; the keywords left go to **kwargs; a parameter
\* without value and without default, an argument without parameter, or a
\* parameter given twice is a TypeError
sig_bind(sig, args, kwargs) ==
    LET P == SelectSeq(sig, IsPositional)
        n == Len(args)
        np == Len(P)
        filled == Min(n, np)
        vararg == NameOfKind(sig, "vararg")
        varkw == NameOfKind(sig, "varkw")
        byPos == { P[i].name : i \in 1..filled }
        left == { sig[i] : i \in { j \in 1..Len(sig) :
                    /\ sig[j].kind \in {"posonly", "pos", "kwonly"}
                    /\ sig[j].name \notin byPos } }
        byKw == { q.name : q \in { r \in left : r.kind # "posonly" /\ r.name \in DOMAIN kwargs } }
        extra == DOMAIN kwargs \ byKw
        err == \/ n > np /\ vararg = "None"
               \/ \E i \in 1..filled : P[i].kind = "pos" /\ P[i].name \in DOMAIN kwargs
               \/ \E q \in left : q.name \notin byKw /\ q.default[1] = "empty"
               \/ extra # {} /\ varkw = "None"
        dom == byPos \cup byKw \cup (IF n > np THEN {vararg} ELSE {})
                     \cup (IF extra # {} THEN {varkw} ELSE {})
    IN  IF err THEN <<"raise", "TypeError">>
        ELSE <<"return",
               [nm \in dom |->
                  IF nm \in byPos THEN args[CHOOSE i \in 1..filled : P[i].name = nm]
                  ELSE IF nm \in byKw THEN kwargs[nm]
                  ELSE IF nm = vararg THEN <<"tuple", SubSeq(args, np + 1, n)>>
                  ELSE <<"dict", [k \in extra |-> kwargs[k]]>>]>>

\* inspect.BoundArguments.apply_defaults
apply_defaults(sig, m) ==
    LET added == { sig[i] : i \in { j \in 1..Len(sig) :
                     /\ sig[j].name \notin DOMAIN m
                     /\ \/ sig[j].default[1] # "empty"
                        \/ sig[j].kind \in {"vararg", "varkw"} } }
    IN  [nm \in DOMAIN m \cup { q.name : q \in added } |->
           IF nm \in DOMAIN m THEN m[nm]
           ELSE LET q == CHOOSE r \in added : r.name = nm
                IN  IF q.default[1] # "empty" THEN q.default
                    ELSE IF q.kind = "vararg" THEN <<"tuple", <<>> >>
                    ELSE <<"dict", <<>> >>]

_bind_fallback(sig, args, kwargs, apply) ==
    LET bound == sig_bind(sig, args, kwargs)
    IN  IF bound[1] = "raise" THEN bound
        ELSE <<"return", IF apply THEN apply_defaults(sig, bound[2]) ELSE bound[2]>>

InSeq(e, q) == \E i \in 1..Len(q) : q[i] = e

\* _map_kwargs: whether the keywords could be mapped, and the mapping
_map_kwargs(mapping, plan, kwargs) ==
    IF \E k \in DOMAIN kwargs : k \in DOMAIN mapping
    THEN [ok |-> FALSE, mapping |-> mapping]
    ELSE IF plan.varkw_name = "None"
    THEN IF \E k \in DOMAIN kwargs : ~InSeq(k, plan.pos_names)
         THEN [ok |-> FALSE, mapping |-> mapping]
         ELSE [ok |-> TRUE,
               mapping |-> [n \in DOMAIN mapping \cup DOMAIN kwargs |->
                              IF n \in DOMAIN kwargs THEN kwargs[n] ELSE mapping[n]]]
    ELSE LET named == { k \in DOMAIN kwargs : InSeq(k, plan.pos_names) }
             extra == DOMAIN kwargs \ named
             m1 == [n \in DOMAIN mapping \cup named |->
                      IF n \in named THEN kwargs[n] ELSE mapping[n]]
             dict == [k \in extra |-> kwargs[k]]
         IN  [ok |-> TRUE,
              mapping |->
                 IF extra = {} THEN m1
                 ELSE IF plan.varkw_name \in DOMAIN m1 /\ m1[plan.varkw_name][1] = "dict"
                 THEN Put(m1, plan.varkw_name,
                          <<"dict", [k \in DOMAIN m1[plan.varkw_name][2] \cup extra |->
                                       IF k \in extra THEN kwargs[k]
                                       ELSE m1[plan.varkw_name][2][k]]>>)
                 ELSE Put(m1, plan.varkw_name, <<"dict", dict>>)]

IsPosOrKw(p) == p.kind = "pos"

RECURSIVE NamesOf(_)
NamesOf(q) == IF q = <<>> THEN <<>> ELSE <<q[1].name>> \o NamesOf(Tail(q))

\* _make_plan
_make_plan(sig) ==
    [pos_names |-> NamesOf(SelectSeq(sig, IsPosOrKw)),
     vararg_name |-> NameOfKind(sig, "vararg"),
     varkw_name |-> NameOfKind(sig, "varkw"),
     need_kwonly_bind |->
        \E i \in 1..Len(sig) :
            \/ sig[i].kind = "pos" /\ sig[i].default[1] # "empty"
            \/ sig[i].kind = "kwonly"]

\* _fast_bind
_fast_bind(plan, sig, args, kwargs, apply) ==
    IF plan.need_kwonly_bind THEN _bind_fallback(sig, args, kwargs, apply)
    ELSE
    LET n_pos == Min(Len(args), Len(plan.pos_names))
        m1 == [nm \in { plan.pos_names[i] : i \in 1..n_pos } |->
                 args[CHOOSE i \in 1..n_pos : plan.pos_names[i] = nm]]
    IN  IF Len(args) > n_pos /\ plan.vararg_name = "None"
        THEN _bind_fallback(sig, args, kwargs, apply)
        ELSE
        LET m2 == IF Len(args) > n_pos
                  THEN Put(m1, plan.vararg_name, <<"tuple", SubSeq(args, n_pos + 1, Len(args))>>)
                  ELSE m1
            mk == _map_kwargs(m2, plan, kwargs)
        IN  IF DOMAIN kwargs # {} /\ ~mk.ok
            THEN _bind_fallback(sig, args, kwargs, apply)
            ELSE
            LET m3 == IF DOMAIN kwargs # {} THEN mk.mapping ELSE m2
                defaulted == { sig[i] : i \in { j \in 1..Len(sig) :
                                 sig[j].default[1] # "empty" /\ sig[j].name \notin DOMAIN m3 } }
            IN  <<"return",
                  IF apply
                  THEN [nm \in DOMAIN m3 \cup { q.name : q \in defaulted } |->
                          IF nm \in DOMAIN m3 THEN m3[nm]
                          ELSE (CHOOSE r \in defaulted : r.name = nm).default]
                  ELSE m3>>

\* the loop over the validators in wrapper, from validator k on
RECURSIVE validate_bound(_, _, _, _)
validate_bound(types, bound, o, k) ==
    IF k > Len(types) THEN <<"ok">>
    ELSE IF types[k][1] \notin DOMAIN bound THEN <<"raise", "KeyError", types[k][1]>>
    ELSE LET r == CallHintPred(_hint_pred_uncached(types[k][2], o), bound[types[k][1]])
         IN  IF r = "TypeError" THEN <<"raise", "TypeError", "validator">>
             ELSE IF r = "False" THEN <<"raise", "TypeError", "expected">>
             ELSE validate_bound(types, bound, o, k + 1)

\* enforce_types.decorator.wrapper: the outcome and whether func was invoked;
\* func itself raises TypeError when the call does not fit its signature
wrapper(sig, types, o, args, kwargs) ==
    LET bound == _fast_bind(_make_plan(sig), sig, args, kwargs, o.check_defaults)
    IN  IF bound[1] = "raise" THEN [out |-> <<"raise", "TypeError", "bind">>, invoked |-> FALSE]
        ELSE LET v == validate_bound(types, bound[2], o, 1)
             IN  IF v[1] = "raise" THEN [out |-> v, invoked |-> FALSE]
                 ELSE [out |-> IF sig_bind(sig, args, kwargs)[1] = "raise"
                               THEN <<"raise", "TypeError", "call">>
                               ELSE <<"return">>,
                       invoked |-> TRUE]

\* enforce_types(options, **types): at most one parameter is given a type,
\* and the decorator rejects a name that is not a parameter
TypesFor(sig) ==
    { <<>> } \cup
    { << <<sig[i].name, Cls("int")>> >> :
        i \in { j \in 1..Len(sig) : sig[j].kind \in {"pos", "kwonly"} } }

\* hint holds the decorated function (signature and types), x the call
InitEnforce ==
    /\ \E sig \in BindSignatures : \E t \in TypesFor(sig) : hint = [sig |-> sig, types |-> t]
    /\ opts \in { DEFAULT_ENFORCE_OPTIONS, [DEFAULT_ENFORCE_OPTIONS EXCEPT !.check_defaults = FALSE] }
    /\ \E args \in SeqsUpTo(BindValues, MaxArgs) : \E kwargs \in KwargsSet :
          x = [args |-> args, kwargs |-> kwargs]
    /\ result = [out |-> <<"none">>, invoked |-> FALSE]
    /\ last = [fast |-> <<"none">>, full |-> <<"none">>]
    /\ pc = [wrapper |-> FALSE, fast |-> FALSE, full |-> FALSE]
    /\ preds = <<>>

\* a call of the decorated function
Wrapper ==
    /\ ~pc.wrapper
    /\ result' = wrapper(hint.sig, hint.types, opts, x.args, x.kwargs)
    /\ pc' = [pc EXCEPT !.wrapper = TRUE]
    /\ UNCHANGED <<x, hint, opts, preds, last>>

\* the fast binder on the call
FastBind ==
    /\ ~pc.fast
    /\ last' = [last EXCEPT !.fast = _fast_bind(_make_plan(hint.sig), hint.sig, x.args,
                                                 x.kwargs, opts.check_defaults)]
    /\ pc' = [pc EXCEPT !.fast = TRUE]
    /\ UNCHANGED <<x, hint, opts, preds, result>>

\* the full binder on the call
BindFallback ==
    /\ ~pc.full
    /\ last' = [last EXCEPT !.full = _bind_fallback(hint.sig, x.args, x.kwargs,
                                                     opts.check_defaults)]
    /\ pc' = [pc EXCEPT !.full = TRUE]
    /\ UNCHANGED <<x, hint, opts, preds, result>>

NextEnforce == Wrapper \/ FastBind \/ BindFallback

SpecEnforce == InitEnforce /\ [][NextEnforce]_vars

\* the parameters with a default and a validator that the call omits, the
\* call fitting the signature
OmittedDefaulted ==
    LET bound == sig_bind(hint.sig, x.args, x.kwargs)
    IN  IF bound[1] = "raise" THEN {}
        ELSE { i \in 1..Len(hint.sig) :
                 /\ hint.sig[i].default[1] # "empty"
                 /\ hint.sig[i].name \notin DOMAIN bound[2]
                 /\ \E k \in 1..Len(hint.types) : hint.types[k][1] = hint.sig[i].name }

\* C27: a call through enforce_types that omits a defaulted parameter: with
\* check_defaults the default is validated like a passed argument (the call
\* is rejected exactly when the default does not match); without
\* check_defaults no error is raised and the wrapped function is invoked
C27_CheckDefaults ==
    (pc.wrapper /\ OmittedDefaulted # {}) =>
        IF opts.check_defaults
        THEN \A i \in OmittedDefaulted :
                IF matches_hint(hint.sig[i].default, hint.types[1][2], opts) = "True"
                THEN result.invoked /\ result.out = <<"return">>
                ELSE ~result.invoked /\ result.out = <<"raise", "TypeError", "expected">>
        ELSE result.invoked /\ result.out = <<"return">>

\* C29: _fast_bind returns the same mapping as the full bind, and fails with
\* the same TypeError when the call does not fit the signature
C29_FastBindRefinesBind ==
    (pc.fast /\ pc.full) => last.fast = last.full

(* ------------- _util/compile.py: the earlier single-function matcher ------ *)
RECURSIVE _util_matches_hint(_, _, _)
RECURSIVE UtilAnyMatch(_, _, _, _)
RECURSIVE UtilAllElems(_, _, _, _)
RECURSIVE UtilAllZip(_, _, _, _)
RECURSIVE UtilAllItems(_, _, _, _, _)

\* any(matches_hint(x, ht, opts) for ht in hints)
UtilAnyMatch(v, hints, i, o) ==
    IF i > Len(hints) THEN "False"
    ELSE PyOr(_util_matches_hint(v, hints[i], o), UtilAnyMatch(v, hints, i + 1, o))

\* all(matches_hint(e, elem, opts) for e in x)
UtilAllElems(elems, h, i, o) ==
    IF i > Len(elems) THEN "True"
    ELSE PyAnd(_util_matches_hint(elems[i], h, o), UtilAllElems(elems, h, i + 1, o))

\* all(matches_hint(elem, ht, opts) for elem, ht in zip(x, args))
UtilAllZip(elems, hints, i, o) ==
    IF i > Len(elems) \/ i > Len(hints) THEN "True"
    ELSE PyAnd(_util_matches_hint(elems[i], hints[i], o), UtilAllZip(elems, hints, i + 1, o))

\* all(matches_hint(k, k_hint, opts) and matches_hint(v, v_hint, opts)
\*     for k, v in x.items())
UtilAllItems(items, k_hint, v_hint, i, o) ==
    IF i > Len(items) THEN "True"
    ELSE PyAnd(PyAnd(_util_matches_hint(items[i][1], k_hint, o),
                     _util_matches_hint(items[i][2], v_hint, o)),
               UtilAllItems(items, k_hint, v_hint, i + 1, o))

\* matches_hint of _util/compile.py: every dedicated case returns its verdict
_util_matches_hint(v, h, o) ==
    IF h[1] = "Any" THEN "True"
    ELSE IF h[1] = "NoneHint" THEN Py(v[1] = "None")
    ELSE
    LET origin == get_origin(h)
        args == get_args(h)
    IN  IF origin = "Annotated" THEN _util_matches_hint(v, args[1], o)
        ELSE IF origin = "Literal" THEN LiteralMember(v, args)
        ELSE IF origin = "type"
        THEN LET t == IF Len(args) > 0 THEN args[1] ELSE <<"cls", "object">>
             IN  Py(TypeOf(v) = "type" /\ (t[2] = "object" \/ issubclass(v[2], t[2])))
        ELSE IF origin = "tuple"
        THEN IF Len(args) = 2 /\ args[2][1] = "Ellipsis"
             THEN PyAnd(isinstance(v, <<"cls", "tuple">>), UtilAllElems(v[2], args[1], 1, o))
             ELSE PyAnd(isinstance(v, <<"cls", "tuple">>),
                        PyAnd(Py(Len(v[2]) = Len(args)), UtilAllZip(v[2], args, 1, o)))
        ELSE IF origin \in {"list", "set", "frozenset", "Sequence"}
        THEN LET elem == IF Len(args) > 0 THEN args[1] ELSE <<"Any">>
             IN  PyAnd(isinstance(v, <<"cls", origin>>), UtilAllElems(Iter(v), elem, 1, o))
        ELSE IF origin \in {"dict", "Mapping"}
        THEN LET k_hint == IF Len(args) > 0 THEN args[1] ELSE <<"Any">>
                 v_hint == IF Len(args) > 0 THEN args[2] ELSE <<"Any">>
             IN  PyAnd(isinstance(v, <<"cls", "Mapping">>),
                       UtilAllItems(v[2], k_hint, v_hint, 1, o))
        ELSE IF origin = "Union" THEN UtilAnyMatch(v, args, 1, o)
        ELSE IF h[1] = "TypeVar"
        THEN IF Len(h[2]) > 0 THEN UtilAnyMatch(v, h[2], 1, o)
             ELSE IF h[3][1] # "NoBound" THEN _util_matches_hint(v, h[3], o)
             ELSE "True"
        ELSE
        LET body ==
                IF IsType(h) /\ ~o.allow_subclasses
                THEN Py(TypeOf(v) = h[2])
                ELSE IF IsType(h) /\ o.strict_bools /\ h[2] = "int"
                THEN Py(TypeOf(v) = "int")
                ELSE isinstance(v, h)
        IN  IF body = "TypeError"
            THEN PyAnd(Py(origin # "NoOrigin"), _util_matches_hint(v, OriginHint(origin), o))
            ELSE body

\* the spec shapes that have a case in both matchers
SharedHints ==
    { h \in Hints : ~(h[1] = "generic" /\ h[2] \in {"Set", "MutableSequence"}) }

InitRefine ==
    /\ x \in Values
    /\ hint \in SharedHints
    /\ opts \in EnforceOptions
    /\ result = "none"
    /\ last = "none"
    /\ pc = [restructured |-> FALSE, earlier |-> FALSE]
    /\ preds = NoPreds

\* matches_hint of predicates/compile.py on the inputs
CallRestructured ==
    /\ ~pc.restructured
    /\ result' = matches_hint(x, hint, opts)
    /\ pc' = [pc EXCEPT !.restructured = TRUE]
    /\ UNCHANGED <<x, hint, opts, preds, last>>

\* matches_hint of _util/compile.py on the inputs
CallEarlier ==
    /\ ~pc.earlier
    /\ last' = _util_matches_hint(x, hint, opts)
    /\ pc' = [pc EXCEPT !.earlier = TRUE]
    /\ UNCHANGED <<x, hint, opts, preds, result>>

NextRefine == CallRestructured \/ CallEarlier

SpecRefine == InitRefine /\ [][NextRefine]_vars

\* C30: the restructured matcher returns the same result as the earlier
\* single-function matcher for every value, every spec shape both support
\* and every options value
C30_MatcherRefinement ==
    (pc.restructured /\ pc.earlier) => result = last

=============================================================================
